---- MODULE Spec2Model ----
(***************************************************************************)
(* A model of the hydrogen handling of Code/GraphMol/AddHs.cpp:            *)
(* MolOps::addHs, MolOps::removeHs (with adjustStereoAtomsIfRequired) and  *)
(* MolOps::mergeQueryHs (with isQueryH), acting on a molecule held as a    *)
(* sequence of atoms, a sequence of bonds and a sequence of conformers.    *)
(*                                                                         *)
(* Atom and bond indices are 1-based here (TLA+ sequences), 0-based in the *)
(* C++ code: model index i is code index i-1.  The order of mol.bonds is   *)
(* the order in which the bonds were added, which is also the order in     *)
(* which getAtomBonds/getAtomNeighbors enumerate the bonds of one atom.    *)
(***************************************************************************)
EXTENDS Integers, Sequences, FiniteSets, TLC

VARIABLES
  mol,    \* the molecule the operations mutate
  pre,    \* the molecule as it was when the last operation was called
  op,     \* the last operation: its name, its arguments and what it reported
  orig,   \* the molecule the behaviour started from
  ops     \* the operations called so far, oldest first

vars == <<mol, pre, op, orig, ops>>

-----------------------------------------------------------------------------
(* Bounds of the model.                                                    *)

\* operations called in one behaviour
MaxOps == 2
\* conformers of an initial molecule are 0..MaxConfs
MaxConfs == 1
\* bonds a caller cuts between the operations in one behaviour
MaxCuts == 1
\* operations called in one behaviour that adds and removes hydrogens over
\* and over
MaxCalls == 4

-----------------------------------------------------------------------------
(* Enumerations, with the numeric order the code compares them by.         *)

\* Bond::BondStereo
STEREONONE == 0
STEREOANY == 1
STEREOZ == 2
STEREOE == 3
STEREOCIS == 4
STEREOTRANS == 5

\* Bond::BondDir
DIR_NONE == 0
ENDDOWNRIGHT == 3
ENDUPRIGHT == 4
DIR_UNKNOWN == 6

\* Bond::BondType, by bond order
SINGLE == 1
DOUBLE == 2

\* Atom::ChiralType
CHI_UNSPECIFIED == 0
CHI_TETRAHEDRAL_CW == 1
CHI_TETRAHEDRAL_CCW == 2

-----------------------------------------------------------------------------
(* Queries: a tree of [desc, neg, val, kids]; desc "none" is "no query".   *)

NoQuery == [desc |-> "none", neg |-> FALSE, val |-> 0, kids |-> <<>>]

makeAtomNumQuery(n) ==
  [desc |-> "AtomAtomicNum", neg |-> FALSE, val |-> n, kids |-> <<>>]

\* makeAtomHCountQuery(i) followed by setNegation(true)
makeNegatedHCountQuery(i) ==
  [desc |-> "AtomHCount", neg |-> TRUE, val |-> i, kids |-> <<>>]

\* QueryAtom::expandQuery(what, COMPOSITE_AND)
expandQuery(q, what) ==
  [desc |-> "AtomAnd", neg |-> FALSE, val |-> 0, kids |-> <<q, what>>]

hasQuery(a) == a.query.desc # "none"

-----------------------------------------------------------------------------
(* Atoms, bonds, molecules.                                                *)

\* Atom::HybridizationType
HYB_UNSPECIFIED == 0
SP == 2
SP2 == 3
SP3 == 4

\* no monomer info, and AtomPDBResidueInfo(name, serial, ..., residueNumber,
\* chainId, ...); a name is a sequence of characters
NoInfo == [has |-> FALSE, name |-> <<>>, serial |-> 0, resNum |-> 0, chain |-> ""]

AtomPDBResidueInfo(name, serial, resNum, chain) ==
  [has |-> TRUE, name |-> name, serial |-> serial, resNum |-> resNum,
   chain |-> chain]

\* new Atom(num): a plain atom with every flag and property unset
NewAtom(n) ==
  [num |-> n, iso |-> 0, query |-> NoQuery, isImplicit |-> FALSE,
   explHs |-> 0, noImplicit |-> FALSE,
   hasOrigNoImplicit |-> FALSE, origNoImplicit |-> FALSE,
   chiral |-> CHI_UNSPECIFIED, arom |-> FALSE,
   explV |-> 0, implV |-> 0,
   unknownStereo |-> FALSE, mapNum |-> 0,
   hyb |-> HYB_UNSPECIFIED, cipCode |-> "", cipRank |-> 0, intProp |-> 0,
   info |-> NoInfo]

\* a bond from atom b (begin) to atom e (end)
NewBond(b, e, t) ==
  [b |-> b, e |-> e, type |-> t, dir |-> DIR_NONE,
   stereo |-> STEREONONE, satoms |-> <<>>, isAromatic |-> FALSE]

\* the unit of a coordinate: a coordinate c is the number c / Scale
Scale == 1000

\* RDGeom::Point3D in fixed point; nan says that a coordinate is not a
\* number (the result of 0/0)
Point3D(x, y, z) == [x |-> x, y |-> y, z |-> z, nan |-> FALSE]

NaNPoint == [x |-> 0, y |-> 0, z |-> 0, nan |-> TRUE]

\* one conformer position: a point the coordinates of which were placed by
\* setHydrogenCoords (set) or are what the molecule came with or the
\* (0,0,0) addAtom gives a new atom
NewPos(placed) == [placed |-> placed, p |-> Point3D(0, 0, 0)]

NumAtoms(m) == Len(m.atoms)
NumBonds(m) == Len(m.bonds)

\* the elements of a finite set of integers, ascending
IdxSeq(S) ==
  [k \in 1..Cardinality(S) |->
     CHOOSE x \in S : Cardinality({y \in S : y < x}) = k - 1]

RemoveAt(s, i) == [k \in 1..(Len(s) - 1) |-> IF k < i THEN s[k] ELSE s[k + 1]]

SeqContains(s, x) == \E k \in DOMAIN s : s[k] = x

\* Bond::getOtherAtomIdx
otherAtomIdx(bd, i) == IF bd.b = i THEN bd.e ELSE bd.b

\* ROMol::getAtomBonds: the indices of the bonds of atom i, in bond order
atomBonds(m, i) ==
  IdxSeq({k \in 1..NumBonds(m) : m.bonds[k].b = i \/ m.bonds[k].e = i})

\* ROMol::getAtomNeighbors: the neighbours of atom i, in bond order
atomNeighbors(m, i) ==
  LET ab == atomBonds(m, i)
  IN  [k \in 1..Len(ab) |-> otherAtomIdx(m.bonds[ab[k]], i)]

getDegree(m, i) == Len(atomBonds(m, i))

\* ROMol::getBondBetweenAtoms: the index of the bond, 0 when there is none
bondBetween(m, i, j) ==
  LET S == {k \in 1..NumBonds(m) :
              (m.bonds[k].b = i /\ m.bonds[k].e = j)
              \/ (m.bonds[k].b = j /\ m.bonds[k].e = i)}
  IN  IF S = {} THEN 0 ELSE CHOOSE k \in S : \A l \in S : k <= l

-----------------------------------------------------------------------------
(* The graph mutator (RWMol), as far as the operations use it.             *)

\* RWMol::addAtom(new Atom(1), false, true): the atom goes last and every
\* conformer gets a position for it
addAtom(m, a) ==
  [m EXCEPT !.atoms = Append(@, a),
            !.confs = [c \in DOMAIN @ |-> Append(@[c], NewPos(FALSE))]]

\* RWMol::addBond(b, e, Bond::SINGLE)
addBond(m, b, e, t) == [m EXCEPT !.bonds = Append(@, NewBond(b, e, t))]

\* RWMol::removeBond: the bond goes; a neighbouring bond's stereo-atom list
\* that names the far end of the removed bond is emptied
removeBond(m, k) ==
  LET bd == m.bonds[k]
      fix(o) ==
        IF (((o.b = bd.b \/ o.e = bd.b) /\ SeqContains(o.satoms, bd.e))
            \/ ((o.b = bd.e \/ o.e = bd.e) /\ SeqContains(o.satoms, bd.b)))
        THEN [o EXCEPT !.satoms = <<>>]
        ELSE o
      rest == RemoveAt(m.bonds, k)
  IN  [m EXCEPT !.bonds = [j \in DOMAIN rest |-> fix(rest[j])]]

\* RWMol::removeAtom: the atom's bonds go, the atoms above it move down by
\* one, and so do the bond ends, the stereo-atom entries and the conformer
\* positions; a stereo-atom list that names the atom is emptied
removeAtom(m, idx) ==
  LET keep == IdxSeq({k \in 1..NumBonds(m) :
                        m.bonds[k].b # idx /\ m.bonds[k].e # idx})
      down(x) == IF x > idx THEN x - 1 ELSE x
      moved(bd) ==
        [bd EXCEPT !.b = down(@), !.e = down(@),
                   !.satoms = IF SeqContains(@, idx) THEN <<>>
                              ELSE [j \in DOMAIN @ |-> down(@[j])]]
  IN  [atoms |-> RemoveAt(m.atoms, idx),
       bonds |-> [k \in 1..Len(keep) |-> moved(m.bonds[keep[k]])],
       confs |-> [c \in DOMAIN m.confs |-> RemoveAt(m.confs[c], idx)],
       is3D |-> m.is3D]

-----------------------------------------------------------------------------
(* Valence bookkeeping (Atom, PeriodicTable).                              *)

\* PeriodicTable::getValenceList
getValenceList(n) ==
  CASE n = 1 -> <<1>>
    [] n = 6 -> <<4>>
    [] n = 9 -> <<1>>
    [] n = 7 -> <<3>>
    [] n = 16 -> <<2, 4, 6>>
    [] OTHER -> <<-1>>

\* Atom::calcExplicitValence: bond orders plus the explicit-H count
calcExplicitValence(m, i) ==
  LET ab == atomBonds(m, i)
      RECURSIVE sum(_)
      sum(k) == IF k = 0 THEN 0 ELSE m.bonds[ab[k]].type + sum(k - 1)
  IN  sum(Len(ab)) + m.atoms[i].explHs

\* Atom::calcImplicitValence: what is missing to the lowest default valence
\* that holds the explicit valence; none for a dummy atom, none when the
\* no-implicit flag is set
calcImplicitValence(m, i) ==
  LET a == m.atoms[i]
      ev == calcExplicitValence(m, i)
      vl == getValenceList(a.num)
      ok == {k \in DOMAIN vl : vl[k] >= ev}
  IN  IF a.noImplicit \/ a.num = 0 \/ ok = {} THEN 0
      ELSE vl[CHOOSE k \in ok : \A l \in ok : k <= l] - ev

\* Atom::updatePropertyCache
updatePropertyCache(m, i) ==
  [m EXCEPT !.atoms[i].explV = calcExplicitValence(m, i),
            !.atoms[i].implV = calcImplicitValence(m, i)]

\* Atom::getNumImplicitHs
getNumImplicitHs(a) == IF a.noImplicit THEN 0 ELSE a.implV

\* Atom::getTotalValence
getTotalValence(a) == a.explV + getNumImplicitHs(a)

RECURSIVE updateAll(_, _, _)
\* updatePropertyCache on atoms i..NumAtoms(m), those with sel[i] only
updateAll(m, i, sel) ==
  IF i > NumAtoms(m) THEN m
  ELSE updateAll(IF sel[i] THEN updatePropertyCache(m, i) ELSE m, i + 1, sel)

\* ROMol::updatePropertyCache
updateMolPropertyCache(m) ==
  updateAll(m, 1, [i \in 1..NumAtoms(m) |-> TRUE])

\* MolOps::sanitizeMol, as far as the valences go: the property caches are
\* brought up to date, and the call fails (MolSanitizeException) when an
\* atom has more explicit valence than its element allows
sanitizeFails(m) ==
  \E i \in 1..NumAtoms(m) :
    /\ m.atoms[i].num # 0
    /\ \A k \in DOMAIN getValenceList(m.atoms[i].num) :
         getValenceList(m.atoms[i].num)[k] < calcExplicitValence(m, i)

sanitizeMol(m) == updateMolPropertyCache(m)

-----------------------------------------------------------------------------
(* MolOps::removeHs.                                                       *)

\* removeItImplicit without the test for a dummy neighbour (lines 592-597)
removeItImplicit_dummyToo(m, i) == TRUE

\* lines 585-598: a hydrogen that carries the isImplicit marker goes, unless
\* its only neighbour is a dummy atom
removeItImplicit(m, i) ==
  ~(getDegree(m, i) = 1 /\ m.atoms[atomNeighbors(m, i)[1]].num < 1)

\* lines 609-621: the neighbour has degree 2 and a double bond that carries
\* stereo, or the bond to the hydrogen carries a direction
onlyNeighborAtStereoEnd(m, i, nbr) ==
  /\ getDegree(m, nbr) = 2
  /\ \E k \in 1..NumBonds(m) :
       /\ m.bonds[k].b = nbr \/ m.bonds[k].e = nbr
       /\ m.bonds[k].type = DOUBLE
       /\ \/ m.bonds[k].stereo > STEREOANY
          \/ m.bonds[bondBetween(m, i, nbr)].dir > DIR_NONE

\* removeItExplicit without the test for an isotope (line 599)
removeItExplicit_isotopeToo(m, i, implicitOnly) ==
  /\ ~implicitOnly
  /\ getDegree(m, i) = 1
  /\ LET nbr == atomNeighbors(m, i)[1]
     IN  /\ m.atoms[nbr].num > 1
         /\ ~onlyNeighborAtStereoEnd(m, i, nbr)

\* lines 599-623: a hydrogen without the marker goes when all hydrogens are
\* asked for, it has no isotope and its one neighbour is a heavy atom that
\* is not the degree-2 end of a stereo double bond
removeItExplicit(m, i, implicitOnly) ==
  /\ ~implicitOnly
  /\ m.atoms[i].iso = 0
  /\ getDegree(m, i) = 1
  /\ LET nbr == atomNeighbors(m, i)[1]
     IN  /\ m.atoms[nbr].num > 1
         /\ ~onlyNeighborAtStereoEnd(m, i, nbr)

\* removeIt without the test for degree 0 (lines 580-583)
removeIt_bondlessToo(m, i, implicitOnly) ==
  IF hasQuery(m.atoms[i]) THEN FALSE
  ELSE IF m.atoms[i].isImplicit THEN removeItImplicit(m, i)
  ELSE removeItExplicit(m, i, implicitOnly)

\* removeIt without the test for a query (line 584)
removeIt_queryToo(m, i, implicitOnly) ==
  IF getDegree(m, i) = 0 THEN FALSE
  ELSE IF m.atoms[i].isImplicit THEN removeItImplicit(m, i)
  ELSE removeItExplicit(m, i, implicitOnly)

\* lines 579-624: removeIt for the hydrogen at index i
removeIt(m, i, implicitOnly) ==
  IF getDegree(m, i) = 0 THEN FALSE
  ELSE IF hasQuery(m.atoms[i]) THEN FALSE
  ELSE IF m.atoms[i].isImplicit THEN removeItImplicit(m, i)
  ELSE removeItExplicit(m, i, implicitOnly)

\* countsAsExplicit with the count taken whatever the atom (lines 644-661
\* with every condition true)
countsAsExplicit_always(a, updateExplicitCount) == TRUE

\* lines 644-661: whether the heavy atom's explicit-H count takes the
\* removed hydrogen
countsAsExplicit(a, updateExplicitCount) ==
  \/ updateExplicitCount
  \/ a.noImplicit
  \/ a.chiral # CHI_UNSPECIFIED
  \/ ((a.num = 7 \/ a.num = 15) /\ a.arom)
  \/ \E k \in 2..Len(getValenceList(a.num)) :
       getValenceList(a.num)[k] = getTotalValence(a)

RECURSIVE countSwapsToInterconvert(_, _, _)
\* the swaps that turn probe into ref, position k onward
countSwapsToInterconvert(ref, probe, k) ==
  IF k > Len(ref) THEN 0
  ELSE IF probe[k] = ref[k] THEN countSwapsToInterconvert(ref, probe, k + 1)
  ELSE LET j == CHOOSE x \in k..Len(probe) : probe[x] = ref[k]
           swapped == [probe EXCEPT ![k] = probe[j], ![j] = probe[k]]
       IN  1 + countSwapsToInterconvert(ref, swapped, k + 1)

\* Atom::getPerturbationOrder(probe) for atom i
getPerturbationOrder(m, i, probe) ==
  countSwapsToInterconvert(atomBonds(m, i), probe, 1)

\* Atom::invertChirality
invertChirality(c) ==
  IF c = CHI_TETRAHEDRAL_CW THEN CHI_TETRAHEDRAL_CCW
  ELSE IF c = CHI_TETRAHEDRAL_CCW THEN CHI_TETRAHEDRAL_CW
  ELSE c

\* fixChiralTag that inverts every tag that is set
fixChiralTag_always(m, h, bidx) ==
  [m EXCEPT !.atoms[h].chiral = invertChirality(@)]

\* fixChiralTag that leaves the tag as it is
fixChiralTag_asIs(m, h, bidx) == m

\* lines 667-684: the chiral tag of heavy atom h once bond bidx to the
\* removed hydrogen is taken to the end of its bond order
fixChiralTag(m, h, bidx) ==
  LET ab == atomBonds(m, h)
      others == SelectSeq(ab, LAMBDA x : x # bidx)
      nSwaps == getPerturbationOrder(m, h, Append(others, bidx))
  IN  IF m.atoms[h].chiral # CHI_UNSPECIFIED /\ nSwaps % 2 = 1
      THEN [m EXCEPT !.atoms[h].chiral = invertChirality(@)]
      ELSE m

\* lines 699-723: the direction of the removed bond bidx handed to another
\* single bond of heavy atom h
handOverDirection(m, h, bidx) ==
  LET ab == atomBonds(m, h)
      singles == {k \in 1..Len(ab) :
                    ab[k] # bidx /\ m.bonds[ab[k]].type = SINGLE}
      foundADir == \E k \in singles : m.bonds[ab[k]].dir # DIR_NONE
      free == {k \in singles : m.bonds[ab[k]].dir = DIR_NONE}
      \* oBond is the last free single bond the loop meets
      oBond == ab[CHOOSE k \in free : \A l \in free : l <= k]
      flipIt == m.bonds[oBond].b = h /\ m.bonds[bidx].b = h
      dir == m.bonds[bidx].dir
  IN  IF ~foundADir /\ free # {}
      THEN [m EXCEPT !.bonds[oBond].dir =
              IF flipIt
              THEN (IF dir = ENDDOWNRIGHT THEN ENDUPRIGHT ELSE ENDDOWNRIGHT)
              ELSE dir]
      ELSE m

\* lines 506-545: the first stereo double bond of heavy atom h that names
\* atom a and for which h has another neighbour to name; 0 when none
firstBondToAdjust(m, a, h) ==
  LET ab == atomBonds(m, h)
      hit == {k \in 1..Len(ab) :
                /\ m.bonds[ab[k]].type = DOUBLE
                /\ m.bonds[ab[k]].stereo > STEREOANY
                /\ SeqContains(m.bonds[ab[k]].satoms, a)
                /\ \E n \in 1..Len(ab) :
                     /\ atomNeighbors(m, h)[n] # otherAtomIdx(m.bonds[ab[k]], h)
                     /\ atomNeighbors(m, h)[n] # a}
  IN  IF hit = {} THEN 0 ELSE ab[CHOOSE k \in hit : \A l \in hit : k <= l]

\* lines 528-539
swapCisTrans(s) ==
  IF s = STEREOCIS THEN STEREOTRANS
  ELSE IF s = STEREOTRANS THEN STEREOCIS
  ELSE s

\* adjustStereoAtomsIfRequired(mol, atom, heavyAtom)
adjustStereoAtomsIfRequired(m, a, h) ==
  IF getDegree(m, h) = 2 \/ bondBetween(m, a, h) = 0 THEN m
  ELSE LET bnd == firstBondToAdjust(m, a, h)
       IN  IF bnd = 0 THEN m
           ELSE LET dblNbrIdx == otherAtomIdx(m.bonds[bnd], h)
                    nb == atomNeighbors(m, h)
                    ok == {n \in DOMAIN nb : nb[n] # dblNbrIdx /\ nb[n] # a}
                    nbr == nb[CHOOSE n \in ok : \A l \in ok : n <= l]
                    sa == m.bonds[bnd].satoms
                    pos == CHOOSE p \in DOMAIN sa :
                             sa[p] = a /\ \A q \in DOMAIN sa : sa[q] = a => p <= q
                IN  [m EXCEPT !.bonds[bnd].satoms[pos] = nbr,
                              !.bonds[bnd].stereo = swapCisTrans(@)]

\* lines 690-733: what the removal of hydrogen a does to the bond
\* directions, the _UnknownStereo mark and the stereo atoms around h
fixBondStereo(m, a, h, bidx) ==
  IF m.bonds[bidx].dir = DIR_UNKNOWN /\ m.bonds[bidx].b = h
  THEN [m EXCEPT !.atoms[h].unknownStereo = TRUE]
  ELSE IF m.bonds[bidx].dir = ENDDOWNRIGHT \/ m.bonds[bidx].dir = ENDUPRIGHT
  THEN adjustStereoAtomsIfRequired(handOverDirection(m, h, bidx), a, h)
  ELSE adjustStereoAtomsIfRequired(m, a, h)

\* lines 626-734: hydrogen i, which has a bond, is taken out of the graph
removeOneH(m, i, updateExplicitCount) ==
  LET bidx == atomBonds(m, i)[1]
      h == otherAtomIdx(m.bonds[bidx], i)
      m1 == IF countsAsExplicit(m.atoms[h], updateExplicitCount)
            THEN [m EXCEPT !.atoms[h].explHs = @ + 1]
            ELSE m
      m2 == fixChiralTag(m1, h, bidx)
      m3 == fixBondStereo(m2, i, h, bidx)
  IN  removeAtom(m3, i)

\* lines 742-752: a heavy atom gets its no-implicit flag back
restoreNoImplicit(a) ==
  IF a.hasOrigNoImplicit
  THEN [a EXCEPT !.noImplicit = a.origNoImplicit,
                 !.hasOrigNoImplicit = FALSE, !.origNoImplicit = FALSE]
  ELSE a

RECURSIVE removeHsLoop(_, _, _)
\* lines 574-754.  st.m is the molecule, st.currIdx the index looked at,
\* st.removed[o] says whether the atom that had index o on entry is gone,
\* st.idxMap[o] is the index it had when the loop reached it, st.threw
\* that CHECK_INVARIANT "H has no neighbors!" failed
removeHsLoop(st, implicitOnly, updateExplicitCount) ==
  IF st.threw \/ st.currIdx > NumAtoms(st.m) THEN st
  ELSE LET m == st.m
           i == st.currIdx
           seen == [st EXCEPT !.idxMap = Append(@, i)]
       IN  IF m.atoms[i].num = 1
           THEN IF removeIt(m, i, implicitOnly)
                THEN IF getDegree(m, i) = 0
                     THEN [seen EXCEPT !.threw = TRUE,
                                       !.removed = Append(@, FALSE)]
                     ELSE removeHsLoop(
                            [seen EXCEPT
                               !.m = removeOneH(m, i, updateExplicitCount),
                               !.removed = Append(@, TRUE)],
                            implicitOnly, updateExplicitCount)
                ELSE removeHsLoop(
                       [seen EXCEPT !.currIdx = i + 1,
                                    !.removed = Append(@, FALSE)],
                       implicitOnly, updateExplicitCount)
           ELSE removeHsLoop(
                  [seen EXCEPT !.m.atoms[i] = restoreNoImplicit(@),
                               !.currIdx = i + 1,
                               !.removed = Append(@, FALSE)],
                  implicitOnly, updateExplicitCount)

\* removeHsDone that calls sanitizeMol only if the loop has removed an atom
removeHsDone_ifRemoved(st, implicitOnly, sanitize) ==
  [m |-> IF ~st.threw /\ ~implicitOnly /\ sanitize /\ ~sanitizeFails(st.m)
            /\ (\E i \in DOMAIN st.removed : st.removed[i])
         THEN sanitizeMol(st.m) ELSE st.m,
   removed |-> st.removed,
   idxMap |-> st.idxMap,
   sanitized |-> /\ ~st.threw /\ ~implicitOnly /\ sanitize
                 /\ (\E i \in DOMAIN st.removed : st.removed[i]),
   threw |-> st.threw,
   ok |-> /\ ~st.threw
          /\ ~(~implicitOnly /\ sanitize /\ sanitizeFails(st.m)
               /\ (\E i \in DOMAIN st.removed : st.removed[i]))]

\* lines 756-766 once the loop has run over st: sanitizeMol is called unless
\* implicitOnly or ~sanitize; .sanitized says that it was called, .threw
\* that the loop stopped at CHECK_INVARIANT, .ok that the call returned
\* without an exception
removeHsDone(st, implicitOnly, sanitize) ==
  [m |-> IF ~st.threw /\ ~implicitOnly /\ sanitize /\ ~sanitizeFails(st.m)
         THEN sanitizeMol(st.m) ELSE st.m,
   removed |-> st.removed,
   idxMap |-> st.idxMap,
   sanitized |-> ~st.threw /\ ~implicitOnly /\ sanitize,
   threw |-> st.threw,
   ok |-> /\ ~st.threw
          /\ ~(~implicitOnly /\ sanitize /\ sanitizeFails(st.m))]

\* MolOps::removeHs(mol, implicitOnly, updateExplicitCount, sanitize)
removeHs(m, implicitOnly, updateExplicitCount, sanitize) ==
  removeHsDone(
    removeHsLoop(
      [m |-> updateAll(m, 1, [i \in 1..NumAtoms(m) |-> m.atoms[i].num # 1]),
       currIdx |-> 1, idxMap |-> <<>>, removed |-> <<>>, threw |-> FALSE],
      implicitOnly, updateExplicitCount),
    implicitOnly, sanitize)

\* new RWMol(mol): the copy constructor
RWMolCopy(m) == m

\* no molecule
NoMol == [atoms |-> <<>>, bonds |-> <<>>, confs |-> <<>>, is3D |-> <<>>]

\* removeHsCopy that does not delete the copy when sanitizeMol fails
removeHsCopy_noDelete(m, r) ==
  [input |-> m, hasResult |-> r.ok, result |-> IF r.ok THEN r.m ELSE NoMol,
   released |-> FALSE,
   removed |-> r.removed, sanitized |-> r.sanitized, threw |-> r.threw,
   ok |-> r.ok]

\* lines 768-778, r being what removeHs has made of the copy of m: the
\* copy is returned, or deleted if removeHs ended with a
\* MolSanitizeException, which is thrown on; the copy of a call that ended
\* with another exception is neither returned nor deleted
removeHsCopy(m, r) ==
  [input |-> m, hasResult |-> r.ok, result |-> IF r.ok THEN r.m ELSE NoMol,
   released |-> ~r.ok /\ ~r.threw,
   removed |-> r.removed, sanitized |-> r.sanitized, threw |-> r.threw,
   ok |-> r.ok]

-----------------------------------------------------------------------------
(* MolOps::addHs.                                                          *)

\* onlyOnAtoms: a null pointer, or the atoms it lists
AllAtoms == [given |-> FALSE, atoms |-> {}]
OnlyOn(S) == [given |-> TRUE, atoms |-> S]

\* lines 428-429 and 447-448
selected(only, i) == ~only.given \/ i \in only.atoms

RECURSIVE numAddHyds(_, _, _, _)
\* lines 426-435: the hydrogens the call is going to add, atoms i and up
numAddHyds(m, explicitOnly, only, i) ==
  IF i > NumAtoms(m) THEN 0
  ELSE (IF selected(only, i)
        THEN m.atoms[i].explHs
             + (IF explicitOnly THEN 0 ELSE getNumImplicitHs(m.atoms[i]))
        ELSE 0)
       + numAddHyds(m, explicitOnly, only, i + 1)

-----------------------------------------------------------------------------
(* The geometry engine (RDGeom::Point3D, RDGeom::Transform3D), in fixed     *)
(* point: a coordinate c stands for c / Scale.                              *)

\* a / b rounded towards zero
quot(a, b) == IF a >= 0 THEN a \div b ELSE -((-a) \div b)

RECURSIVE isqrtBetween(_, _, _)
\* the r with r * r <= n < (r + 1) * (r + 1), given lo * lo <= n < hi * hi
isqrtBetween(n, lo, hi) ==
  IF hi - lo <= 1 THEN lo
  ELSE IF ((lo + hi) \div 2) * ((lo + hi) \div 2) <= n
       THEN isqrtBetween(n, (lo + hi) \div 2, hi)
       ELSE isqrtBetween(n, lo, (lo + hi) \div 2)

isqrt(n) == isqrtBetween(n, 0, IF n < 46340 THEN n + 1 ELSE 46340)

\* Point3D::operator+, operator-, operator*(double)
plus(a, b) ==
  [x |-> a.x + b.x, y |-> a.y + b.y, z |-> a.z + b.z, nan |-> a.nan \/ b.nan]

minus(a, b) ==
  [x |-> a.x - b.x, y |-> a.y - b.y, z |-> a.z - b.z, nan |-> a.nan \/ b.nan]

times(a, k) ==
  [x |-> quot(a.x * k, Scale), y |-> quot(a.y * k, Scale),
   z |-> quot(a.z * k, Scale), nan |-> a.nan]

\* Point3D::dotProduct, in units of 1 / Scale
dotProduct(a, b) == quot(a.x * b.x + a.y * b.y + a.z * b.z, Scale)

\* Point3D::crossProduct
crossProduct(a, b) ==
  [x |-> quot(a.y * b.z - a.z * b.y, Scale),
   y |-> quot(a.z * b.x - a.x * b.z, Scale),
   z |-> quot(a.x * b.y - a.y * b.x, Scale),
   nan |-> a.nan \/ b.nan]

\* Point3D::length, in units of 1 / Scale
length(a) == isqrt(a.x * a.x + a.y * a.y + a.z * a.z)

\* fabs(v.lengthSq()) < 1e-4; a comparison with a NaN is false
isDegenerate(a) == ~a.nan /\ a.x * a.x + a.y * a.y + a.z * a.z < 100

\* Point3D::normalize: every coordinate is divided by the length, which
\* for the zero vector gives 0/0
normalize(a) ==
  IF a.nan \/ length(a) = 0 THEN NaNPoint
  ELSE [x |-> quot(a.x * Scale, length(a)), y |-> quot(a.y * Scale, length(a)),
        z |-> quot(a.z * Scale, length(a)), nan |-> FALSE]

\* Point3D::directionVector
directionVector(a, b) == normalize(minus(b, a))

\* the vector getPerpendicular picks before it is normalized
perpendicularTo(a) ==
  IF a.x # 0
  THEN (IF a.y # 0 THEN Point3D(a.y, -a.x, 0)
        ELSE IF a.z # 0 THEN Point3D(a.z, 0, -a.x)
        ELSE Point3D(0, Scale, 0))
  ELSE IF a.y # 0
  THEN (IF a.z # 0 THEN Point3D(0, a.z, -a.y) ELSE Point3D(Scale, 0, 0))
  ELSE Point3D(Scale, 0, 0)

\* Point3D::getPerpendicular, for a vector that is a number and not zero
getPerpendicular(a) == IF a.nan THEN NaNPoint ELSE normalize(perpendicularTo(a))

\* Transform3D::SetRotation(angle, axis) and then tform * v: the rotation
\* of v about the axis, cosT and sinT being Scale times the cosine and the
\* sine of the angle
rotated(v, cosT, sinT, axis) ==
  plus(plus(times(v, cosT), times(crossProduct(axis, v), sinT)),
       times(axis, quot(dotProduct(axis, v) * (Scale - cosT), Scale)))

\* PeriodicTable::getRb0
getRb0(num) ==
  IF num = 1 THEN 330 ELSE IF num = 6 THEN 770 ELSE IF num = 7 THEN 700
  ELSE IF num = 9 THEN 610 ELSE IF num = 16 THEN 1040 ELSE 0

-----------------------------------------------------------------------------
(* setHydrogenCoords.                                                      *)

\* Conformer::getAtomPos
getAtomPos(m, c, i) == m.confs[c][i].p

\* Conformer::setAtomPos
setAtomPos(m, c, i, pt) == [m EXCEPT !.confs[c][i] = [placed |-> TRUE, p |-> pt]]

\* lines 24-43: the first neighbour of atom i that is not atom other
getAtomNeighborNot(m, i, other) ==
  LET nb == atomNeighbors(m, i)
  IN  nb[CHOOSE k \in 1..Len(nb) :
           nb[k] # other /\ \A j \in 1..(k - 1) : nb[j] = other]

\* lines 55-57
bondLength(m, heavyIdx) == getRb0(1) + getRb0(m.atoms[heavyIdx].num)

\* (*cfi)->is3D() ? bondLength : 1.0
hydDist(m, c, heavyIdx) == IF m.is3D[c] THEN bondLength(m, heavyIdx) ELSE Scale

\* what one round of a conformer loop leaves: the hydrogen's position and
\* the locals that live on into the next round
Placed(pt, dirVect, perpVect) ==
  [pos |-> pt, dirVect |-> dirVect, perpVect |-> perpVect]

\* hydPos = heavyPos + dirVect * (is3D ? bondLength : 1.0)
along(m, c, heavyIdx, dirVect, perpVect) ==
  Placed(plus(getAtomPos(m, c, heavyIdx),
              times(dirVect, hydDist(m, c, heavyIdx))),
         dirVect, perpVect)

\* lines 78-85
place1(m, c, heavyIdx, dirVect, perpVect) ==
  along(m, c, heavyIdx,
        IF m.is3D[c] THEN [dirVect EXCEPT !.z = Scale]
        ELSE [dirVect EXCEPT !.x = Scale],
        perpVect)

\* cos and sin of 180 - 109.471 degrees (line 119), of 60 degrees (line 140)
\* and of 109.471 / 2 degrees (line 203), times Scale
Cos70 == 333
Sin70 == 943
Cos60 == 500
Sin60 == 866
Cos54 == 577
Sin54 == 816

\* lines 126-138: the axis an SP2 atom's hydrogen is rotated about
sp2Axis(m, c, heavyIdx, nbr1, nbr1Vect) ==
  normalize(
    IF getDegree(m, nbr1) > 1
       /\ (m.bonds[bondBetween(m, heavyIdx, nbr1)].isAromatic
           \/ m.bonds[bondBetween(m, heavyIdx, nbr1)].type = DOUBLE)
    THEN crossProduct(
           directionVector(getAtomPos(m, c, nbr1),
                           getAtomPos(m, c, getAtomNeighborNot(m, nbr1, heavyIdx))),
           nbr1Vect)
    ELSE getPerpendicular(nbr1Vect))

\* lines 111-157, nbr1Vect pointing away from the neighbour
bend2(m, c, heavyIdx, nbr1, nbr1Vect, dirVect, perpVect) ==
  IF m.atoms[heavyIdx].hyb = SP3
  THEN along(m, c, heavyIdx,
             rotated(nbr1Vect, Cos70, Sin70,
                     IF m.is3D[c] THEN getPerpendicular(nbr1Vect)
                     ELSE [perpVect EXCEPT !.z = Scale]),
             IF m.is3D[c] THEN getPerpendicular(nbr1Vect)
             ELSE [perpVect EXCEPT !.z = Scale])
  ELSE IF m.atoms[heavyIdx].hyb = SP2
  THEN along(m, c, heavyIdx,
             rotated(nbr1Vect, Cos60, Sin60,
                     sp2Axis(m, c, heavyIdx, nbr1, nbr1Vect)),
             sp2Axis(m, c, heavyIdx, nbr1, nbr1Vect))
  ELSE along(m, c, heavyIdx, nbr1Vect, perpVect)

\* lines 96-157
place2(m, c, hydIdx, heavyIdx, dirVect, perpVect) ==
  IF isDegenerate(minus(getAtomPos(m, c, getAtomNeighborNot(m, heavyIdx, hydIdx)),
                        getAtomPos(m, c, heavyIdx)))
  THEN Placed(getAtomPos(m, c, heavyIdx), dirVect, perpVect)
  ELSE bend2(m, c, heavyIdx, getAtomNeighborNot(m, heavyIdx, hydIdx),
             times(normalize(
                     minus(getAtomPos(m, c, getAtomNeighborNot(m, heavyIdx, hydIdx)),
                           getAtomPos(m, c, heavyIdx))), -Scale),
             dirVect, perpVect)

\* the neighbours of the heavy atom but for the hydrogen, in bond order
otherNbrs(m, hydIdx, heavyIdx) ==
  SelectSeq(atomNeighbors(m, heavyIdx), LAMBDA n : n # hydIdx)

\* lines 189-226, nbr1Vect and nbr2Vect normalized and dirVect their
\* normalized sum
bend3(m, c, heavyIdx, nbr1Vect, nbr2Vect, dirVect, perpVect) ==
  IF m.is3D[c]
  THEN (IF m.atoms[heavyIdx].hyb = SP3
        THEN along(m, c, heavyIdx,
                   rotated(dirVect, Cos54, Sin54,
                           normalize(crossProduct(
                                       crossProduct(nbr1Vect, nbr2Vect),
                                       dirVect))),
                   perpVect)
        ELSE along(m, c, heavyIdx, dirVect, perpVect))
  ELSE Placed(plus(getAtomPos(m, c, heavyIdx), dirVect), dirVect, perpVect)

\* place3From that leaves the sum of the two unit vectors as it is
place3From_sumAsIs(m, c, heavyIdx, nbr1Vect, nbr2Vect, dirVect, perpVect) ==
  IF isDegenerate(nbr1Vect) \/ isDegenerate(nbr2Vect)
  THEN Placed(getAtomPos(m, c, heavyIdx), dirVect, perpVect)
  ELSE bend3(m, c, heavyIdx, normalize(nbr1Vect), normalize(nbr2Vect),
             plus(normalize(nbr1Vect), normalize(nbr2Vect)), perpVect)

\* lines 179-226, nbr1Vect and nbr2Vect as subtracted
place3From(m, c, heavyIdx, nbr1Vect, nbr2Vect, dirVect, perpVect) ==
  IF isDegenerate(nbr1Vect) \/ isDegenerate(nbr2Vect)
  THEN Placed(getAtomPos(m, c, heavyIdx), dirVect, perpVect)
  ELSE bend3(m, c, heavyIdx, normalize(nbr1Vect), normalize(nbr2Vect),
             normalize(plus(normalize(nbr1Vect), normalize(nbr2Vect))),
             perpVect)

\* lines 164-227: nbr1 is the first and nbr2 the last of the other neighbours
place3(m, c, hydIdx, heavyIdx, dirVect, perpVect) ==
  place3From(m, c, heavyIdx,
             minus(getAtomPos(m, c, heavyIdx),
                   getAtomPos(m, c, Head(otherNbrs(m, hydIdx, heavyIdx)))),
             minus(getAtomPos(m, c, heavyIdx),
                   getAtomPos(m, c, otherNbrs(m, hydIdx, heavyIdx)[
                                      Len(otherNbrs(m, hydIdx, heavyIdx))])),
             dirVect, perpVect)

\* std::sort of the (CIP rank, index) pairs of lines 238-249
byCipRank(m, nbrs) ==
  [k \in 1..Len(nbrs) |->
     CHOOSE n \in {nbrs[j] : j \in 1..Len(nbrs)} :
       Cardinality({o \in {nbrs[j] : j \in 1..Len(nbrs)} :
                      m.atoms[o].cipRank < m.atoms[n].cipRank
                      \/ (m.atoms[o].cipRank = m.atoms[n].cipRank /\ o < n)})
         = k - 1]

\* lines 233-267: nbr1, nbr2 and nbr3
nbrs4(m, hydIdx, heavyIdx) ==
  IF m.atoms[heavyIdx].cipCode # ""
  THEN byCipRank(m, otherNbrs(m, hydIdx, heavyIdx))
  ELSE <<otherNbrs(m, hydIdx, heavyIdx)[1], otherNbrs(m, hydIdx, heavyIdx)[2],
         otherNbrs(m, hydIdx, heavyIdx)[Len(otherNbrs(m, hydIdx, heavyIdx))]>>

\* lines 297-314: the normal of the first two neighbour vectors, turned
\* round by the sign of the chiral volume and the CIP code
planarDir(cipCode, nbr1Vect, nbr2Vect, nbr3Vect, normal) ==
  IF (cipCode = "S"
      /\ dotProduct(minus(normal, nbr3Vect),
                    crossProduct(minus(nbr1Vect, nbr3Vect),
                                 minus(nbr2Vect, nbr3Vect))) < 0)
     \/ (cipCode = "R"
         /\ dotProduct(minus(normal, nbr3Vect),
                       crossProduct(minus(nbr1Vect, nbr3Vect),
                                    minus(nbr2Vect, nbr3Vect))) > 0)
  THEN times(normal, -Scale)
  ELSE normal

\* the smaller of two dot products, a comparison with a NaN being false
dotBelow(a, b, minDot) == ~a.nan /\ ~b.nan /\ dotProduct(a, b) < minDot

\* lines 323-333: the negated sum of the two neighbour vectors with the
\* widest angle between them
flatDir(nbr1Vect, nbr2Vect, nbr3Vect) ==
  times(
    IF nbr1Vect.nan \/ nbr2Vect.nan THEN NaNPoint
    ELSE IF dotBelow(nbr2Vect, nbr3Vect, dotProduct(nbr1Vect, nbr2Vect))
    THEN (IF dotBelow(nbr1Vect, nbr3Vect, dotProduct(nbr2Vect, nbr3Vect))
          THEN plus(nbr1Vect, nbr3Vect)
          ELSE plus(nbr2Vect, nbr3Vect))
    ELSE (IF dotBelow(nbr1Vect, nbr3Vect, dotProduct(nbr1Vect, nbr2Vect))
          THEN plus(nbr1Vect, nbr3Vect)
          ELSE plus(nbr1Vect, nbr2Vect)),
    -Scale)

\* lines 286-337, the three neighbour vectors normalized
bend4(m, c, heavyIdx, nbr1Vect, nbr2Vect, nbr3Vect, perpVect) ==
  along(m, c, heavyIdx,
        normalize(
          IF m.is3D[c]
          THEN (IF ~nbr1Vect.nan /\ ~nbr2Vect.nan /\ ~nbr3Vect.nan
                   /\ dotProduct(nbr3Vect, crossProduct(nbr1Vect, nbr2Vect)) < 100
                   /\ dotProduct(nbr3Vect, crossProduct(nbr1Vect, nbr2Vect)) > -100
                THEN planarDir(m.atoms[heavyIdx].cipCode, nbr1Vect, nbr2Vect,
                               nbr3Vect, crossProduct(nbr1Vect, nbr2Vect))
                ELSE plus(plus(nbr1Vect, nbr2Vect), nbr3Vect))
          ELSE flatDir(nbr1Vect, nbr2Vect, nbr3Vect)),
        perpVect)

\* lines 274-337, the three neighbour vectors as subtracted
place4From(m, c, heavyIdx, nbr1Vect, nbr2Vect, nbr3Vect, dirVect, perpVect) ==
  IF isDegenerate(nbr1Vect) \/ isDegenerate(nbr2Vect) \/ isDegenerate(nbr3Vect)
  THEN Placed(getAtomPos(m, c, heavyIdx), dirVect, perpVect)
  ELSE bend4(m, c, heavyIdx, normalize(nbr1Vect), normalize(nbr2Vect),
             normalize(nbr3Vect), perpVect)

\* lines 233-338
place4(m, c, heavyIdx, nbrs, dirVect, perpVect) ==
  place4From(m, c, heavyIdx,
             minus(getAtomPos(m, c, heavyIdx), getAtomPos(m, c, nbrs[1])),
             minus(getAtomPos(m, c, heavyIdx), getAtomPos(m, c, nbrs[2])),
             minus(getAtomPos(m, c, heavyIdx), getAtomPos(m, c, nbrs[3])),
             dirVect, perpVect)

\* lines 344-348: heavyPos and dirVect are what they were constructed as
placeDefault(m, heavyIdx, dirVect, perpVect) ==
  Placed(plus(Point3D(0, 0, 0), times(dirVect, bondLength(m, heavyIdx))),
         dirVect, perpVect)

\* line 70: the body of the conformer loop for the heavy atom's degree
placeIn(m, c, hydIdx, heavyIdx, dirVect, perpVect) ==
  IF getDegree(m, heavyIdx) = 1 THEN place1(m, c, heavyIdx, dirVect, perpVect)
  ELSE IF getDegree(m, heavyIdx) = 2
  THEN place2(m, c, hydIdx, heavyIdx, dirVect, perpVect)
  ELSE IF getDegree(m, heavyIdx) = 3
  THEN place3(m, c, hydIdx, heavyIdx, dirVect, perpVect)
  ELSE IF getDegree(m, heavyIdx) = 4
  THEN place4(m, c, heavyIdx, nbrs4(m, hydIdx, heavyIdx), dirVect, perpVect)
  ELSE placeDefault(m, heavyIdx, dirVect, perpVect)

RECURSIVE coordsLoop(_, _, _, _, _, _)
RECURSIVE coordsNext(_, _, _, _, _)
\* the conformer loops of setHydrogenCoords, from conformer c on
coordsLoop(m, hydIdx, heavyIdx, c, dirVect, perpVect) ==
  IF c > Len(m.confs) THEN m
  ELSE coordsNext(m, hydIdx, heavyIdx, c,
                  placeIn(m, c, hydIdx, heavyIdx, dirVect, perpVect))

coordsNext(m, hydIdx, heavyIdx, c, r) ==
  coordsLoop(setAtomPos(m, c, hydIdx, r.pos), hydIdx, heavyIdx, c + 1,
             r.dirVect, r.perpVect)

\* setHydrogenCoords(mol, hydIdx, heavyIdx)
setHydrogenCoords(m, hydIdx, heavyIdx) ==
  coordsLoop(m, hydIdx, heavyIdx, 1, Point3D(0, 0, 0), Point3D(0, 0, 0))

\* addOneH on a molecule whose conformers get a position for the new atom
\* from setHydrogenCoords only
addOneH_coordsOnly(m, aidx, marked, addCoords) ==
  IF addCoords
  THEN setHydrogenCoords(
         updatePropertyCache(
           addBond(addAtom(m, [NewAtom(1) EXCEPT !.isImplicit = marked]),
                   aidx, NumAtoms(m) + 1, SINGLE),
           NumAtoms(m) + 1),
         NumAtoms(m) + 1, aidx)
  ELSE updatePropertyCache(
         addBond([m EXCEPT !.atoms =
                    Append(@, [NewAtom(1) EXCEPT !.isImplicit = marked])],
                 aidx, NumAtoms(m) + 1, SINGLE),
         NumAtoms(m) + 1)

\* lines 458-461 and 470-476: one hydrogen on atom aidx
addOneH(m, aidx, marked, addCoords) ==
  LET newIdx == NumAtoms(m) + 1
      m1 == addAtom(m, [NewAtom(1) EXCEPT !.isImplicit = marked])
      m2 == updatePropertyCache(addBond(m1, aidx, newIdx, SINGLE), newIdx)
  IN  IF addCoords THEN setHydrogenCoords(m2, newIdx, aidx) ELSE m2

RECURSIVE addNHs(_, _, _, _, _)
addNHs(m, aidx, n, marked, addCoords) ==
  IF n = 0 THEN m
  ELSE addNHs(addOneH(m, aidx, marked, addCoords), aidx, n - 1, marked, addCoords)

\* lines 466-482: the implicit hydrogens of atom aidx, which then is told to
\* have none
addImplicitHs(m, aidx, addCoords) ==
  [addNHs(m, aidx, getNumImplicitHs(m.atoms[aidx]), TRUE, addCoords)
     EXCEPT !.atoms[aidx].hasOrigNoImplicit = TRUE,
            !.atoms[aidx].origNoImplicit = m.atoms[aidx].noImplicit,
            !.atoms[aidx].noImplicit = TRUE]

\* addExplicitHs that clears the explicit-H count and adds no atom
addExplicitHs_countOnly(m, aidx, addCoords) ==
  [m EXCEPT !.atoms[aidx].explHs = 0]

\* lines 456-464: the explicit hydrogens of atom aidx
addExplicitHs(m, aidx, addCoords) ==
  [addNHs(m, aidx, m.atoms[aidx].explHs, FALSE, addCoords)
     EXCEPT !.atoms[aidx].explHs = 0]

\* lines 452-484: the hydrogens of atom aidx
addHsToAtom(m, aidx, explicitOnly, addCoords) ==
  updatePropertyCache(
    IF explicitOnly THEN addExplicitHs(m, aidx, addCoords)
    ELSE addImplicitHs(addExplicitHs(m, aidx, addCoords), aidx, addCoords),
    aidx)

RECURSIVE addHsLoop(_, _, _, _, _, _)
\* lines 445-485
addHsLoop(m, aidx, stopIdx, explicitOnly, addCoords, only) ==
  IF aidx > stopIdx \/ aidx > NumAtoms(m) THEN m
  ELSE addHsLoop(
         IF selected(only, aidx)
         THEN addHsToAtom(m, aidx, explicitOnly, addCoords)
         ELSE m,
         aidx + 1, stopIdx, explicitOnly, addCoords, only)

\* MolOps::addHs(mol, explicitOnly, addCoords, onlyOnAtoms)
addHs(m, explicitOnly, addCoords, only) ==
  addHsLoop(m, 1, NumAtoms(m), explicitOnly, addCoords, only)

-----------------------------------------------------------------------------
(* AssignHsResidueInfo, loop round by loop round.  Its locals are the      *)
(* record [aidx, nbr, current_h_id, current_info, max_serial]: the atom of  *)
(* the outer loop, the place of the iterator begin in that atom's          *)
(* neighbour list, and the three variables of the same names.              *)

\* the number of values current_h_id takes while lines 376-382 repeat
MaxHId == 4

RECURSIVE lexical_cast(_)
\* boost::lexical_cast<std::string>(n) for n >= 0
lexical_cast(n) ==
  IF n < 10 THEN <<<<"0", "1", "2", "3", "4", "5", "6", "7", "8", "9">>[n + 1]>>
  ELSE lexical_cast(n \div 10)
       \o <<<<"0", "1", "2", "3", "4", "5", "6", "7", "8", "9">>[(n % 10) + 1]>>

\* lines 391-392: the last three characters
lastThree(txt) == IF Len(txt) > 3 THEN SubSeq(txt, Len(txt) - 2, Len(txt)) ELSE txt

\* line 393: blanks up to three characters
padded(txt) == txt \o [k \in 1..(3 - Len(txt)) |-> " "]

\* lines 394-396: "H" in front, then the last character to the front
wrapped(txt) == <<(<<"H">> \o txt)[4]>> \o SubSeq(<<"H">> \o txt, 1, 3)

\* lines 390-396: h_label
hLabel(current_h_id) == wrapped(padded(lastThree(lexical_cast(current_h_id))))

RECURSIVE maxSerial(_, _)
\* lines 354-363: the largest serial number of the atoms from aidx on, or 0
maxSerial(m, aidx) ==
  IF aidx > NumAtoms(m) THEN 0
  ELSE IF m.atoms[aidx].info.has
          /\ m.atoms[aidx].info.serial > maxSerial(m, aidx + 1)
  THEN m.atoms[aidx].info.serial
  ELSE maxSerial(m, aidx + 1)

\* lines 365-367: the locals when the second loop starts
assignStart(m) ==
  [aidx |-> 1, nbr |-> 1, current_h_id |-> 0, current_info |-> NoInfo,
   max_serial |-> maxSerial(m, 1)]

\* line 367: the loop is over
assignOver(m, stopIdx, loc) == loc.aidx > stopIdx

\* lines 370-374, 404: the atom has no residue info, or begin == end
atEnd(m, loc) ==
  \/ ~m.atoms[loc.aidx].info.has
  \/ loc.nbr > getDegree(m, loc.aidx)

\* *begin
atBegin(m, loc) == atomNeighbors(m, loc.aidx)[loc.nbr]

\* line 367: ++aidx
nextAtom(loc) == [loc EXCEPT !.aidx = @ + 1, !.nbr = 1]

\* line 403: ++begin
nextNbr(loc) == [loc EXCEPT !.nbr = @ + 1]

\* line 377: ++current_h_id
counted(loc) == [loc EXCEPT !.current_h_id = @ + 1]

\* lines 376-382: the hydrogen has residue info: ++current_h_id and
\* continue, with begin where it is; the int current_h_id is kept to
\* MaxHId values here
skipLabelled(loc) ==
  [loc EXCEPT !.current_h_id = (@ + 1) % MaxHId]

\* lines 385-390: the hydrogen is the first of another residue
otherResidue(m, loc) ==
  \/ ~loc.current_info.has
  \/ loc.current_info.resNum # m.atoms[loc.aidx].info.resNum
  \/ loc.current_info.chain # m.atoms[loc.aidx].info.chain

\* lines 377, 385-390: current_h_id and current_info for the hydrogen
renewed(m, loc) ==
  IF otherResidue(m, loc)
  THEN [loc EXCEPT !.current_h_id = 1, !.current_info = m.atoms[loc.aidx].info]
  ELSE counted(loc)

\* lines 397-401: the hydrogen's new residue info
labelled(m, loc, id) ==
  [m EXCEPT !.atoms[atBegin(m, loc)].info =
     AtomPDBResidueInfo(hLabel(id), loc.max_serial,
                        m.atoms[loc.aidx].info.resNum,
                        m.atoms[loc.aidx].info.chain)]

\* lines 401-403: ++max_serial, ++begin
afterLabel(loc) == [nextNbr(loc) EXCEPT !.max_serial = @ + 1]

-----------------------------------------------------------------------------
(* MolOps::mergeQueryHs.                                                   *)

RECURSIVE scanForHQuery_orsBelowIgnored(_, _, _)
\* scanForHQuery that takes an AtomOr child for any other combinator
scanForHQuery_orsBelowIgnored(childStack, hasHQuery, hasOr) ==
  IF (hasHQuery /\ hasOr) \/ childStack = <<>> THEN <<hasHQuery, hasOr>>
  ELSE IF Head(childStack).desc = "AtomAtomicNum"
  THEN scanForHQuery_orsBelowIgnored(
         Tail(childStack),
         hasHQuery \/ (Head(childStack).val = 1 /\ ~Head(childStack).neg),
         hasOr)
  ELSE scanForHQuery_orsBelowIgnored(Tail(childStack) \o Head(childStack).kids,
                                     hasHQuery, hasOr)

RECURSIVE scanForHQuery(_, _, _)
\* lines 812-829: <<hasHQuery, hasOr>> once the child stack is worked off
scanForHQuery(childStack, hasHQuery, hasOr) ==
  IF (hasHQuery /\ hasOr) \/ childStack = <<>> THEN <<hasHQuery, hasOr>>
  ELSE LET query == Head(childStack)
           rest == Tail(childStack)
       IN  IF query.desc = "AtomOr" THEN scanForHQuery(rest, hasHQuery, TRUE)
           ELSE IF query.desc = "AtomAtomicNum"
           THEN scanForHQuery(rest, hasHQuery \/ (query.val = 1 /\ ~query.neg),
                              hasOr)
           ELSE scanForHQuery(rest \o query.kids, hasHQuery, hasOr)

\* isQueryH(atom) for atom i
isQueryH(m, i) ==
  LET a == m.atoms[i]
      q == a.query
      found == scanForHQuery(q.kids, FALSE, q.desc = "AtomOr")
  IN  IF a.num = 1 /\ (~hasQuery(a) \/ (~q.neg /\ q.desc = "AtomAtomicNum"))
      THEN TRUE
      ELSE IF getDegree(m, i) # 1 THEN FALSE
      ELSE IF hasQuery(a) /\ q.neg THEN FALSE
      ELSE IF ~hasQuery(a) THEN FALSE
      ELSE found[1] /\ ~found[2]

\* lines 873-883: the neighbours of atom i recorded for removal, in
\* neighbour order
hsToRemove(m, hatoms, i, mergeUnmappedOnly) ==
  SelectSeq(atomNeighbors(m, i),
            LAMBDA n : hatoms[n] /\ (~mergeUnmappedOnly \/ m.atoms[n].mapNum = 0))

\* asQueryAtom without updateProps
asQueryAtom_noProps(a) == [NewAtom(0) EXCEPT !.query = makeAtomNumQuery(a.num)]

\* lines 898-908: the atom becomes a QueryAtom that asks for its atomic
\* number and takes over the property dictionary of the atom it replaces
asQueryAtom(a) ==
  [NewAtom(0) EXCEPT !.query = makeAtomNumQuery(a.num),
                     !.isImplicit = a.isImplicit,
                     !.hasOrigNoImplicit = a.hasOrigNoImplicit,
                     !.origNoImplicit = a.origNoImplicit,
                     !.unknownStereo = a.unknownStereo,
                     !.mapNum = a.mapNum,
                     !.cipCode = a.cipCode, !.cipRank = a.cipRank,
                     !.intProp = a.intProp]

\* addHCountQueries that adds "not H0" only
addHCountQueries_once(q, i, n) ==
  IF n = 0 THEN q ELSE expandQuery(q, makeNegatedHCountQuery(0))

RECURSIVE addHCountQueries(_, _, _)
\* lines 909-913
addHCountQueries(q, i, n) ==
  IF i >= n THEN q
  ELSE addHCountQueries(expandQuery(q, makeNegatedHCountQuery(i)), i + 1, n)

\* lines 884-914
mergeIntoAtom(a, numHsToRemove) ==
  IF numHsToRemove = 0 THEN a
  ELSE LET qa == IF hasQuery(a) THEN a ELSE asQueryAtom(a)
       IN  [qa EXCEPT !.query = addHCountQueries(@, 0, numHsToRemove)]

RECURSIVE mergeLoop(_, _, _, _, _)
\* lines 866-948: <<molecule, atomsToRemove>>
mergeLoop(m, hatoms, currIdx, atomsToRemove, mergeUnmappedOnly) ==
  IF currIdx > NumAtoms(m) THEN <<m, atomsToRemove>>
  ELSE IF hatoms[currIdx]
  THEN mergeLoop(m, hatoms, currIdx + 1, atomsToRemove, mergeUnmappedOnly)
  ELSE LET hs == hsToRemove(m, hatoms, currIdx, mergeUnmappedOnly)
       IN  mergeLoop([m EXCEPT !.atoms[currIdx] = mergeIntoAtom(@, Len(hs))],
                     hatoms, currIdx + 1, atomsToRemove \o hs,
                     mergeUnmappedOnly)

RECURSIVE sortSeq(_)
\* std::sort, ascending
sortSeq(s) ==
  IF s = <<>> THEN <<>>
  ELSE LET k == CHOOSE x \in DOMAIN s : \A y \in DOMAIN s : s[x] >= s[y]
       IN  Append(sortSeq(RemoveAt(s, k)), s[k])

RECURSIVE removeFromBack(_, _, _, _)
\* lines 950-955: the recorded indices are removed from the last to the
\* first; getAtomWithIdx fails on an index the molecule no longer has.
\* ids[j] is the index atom j had when mergeQueryHs was called
removeFromBack(m, sorted, k, ids) ==
  IF k = 0 THEN [m |-> m, ok |-> TRUE, atomsToRemove |-> sorted, ids |-> ids]
  ELSE IF sorted[k] > NumAtoms(m)
  THEN [m |-> m, ok |-> FALSE, atomsToRemove |-> sorted, ids |-> ids]
  ELSE removeFromBack(removeAtom(m, sorted[k]), sorted, k - 1,
                      RemoveAt(ids, sorted[k]))

\* lines 949-955
removeRecorded(m, sorted) ==
  removeFromBack(m, sorted, Len(sorted), [i \in 1..NumAtoms(m) |-> i])

\* MolOps::mergeQueryHs(mol, mergeUnmappedOnly), for atoms whose queries
\* hold no recursive-structure query
mergeQueryHs(m, mergeUnmappedOnly) ==
  removeRecorded(
    mergeLoop(m, [i \in 1..NumAtoms(m) |-> isQueryH(m, i)], 1, <<>>,
              mergeUnmappedOnly)[1],
    sortSeq(mergeLoop(m, [i \in 1..NumAtoms(m) |-> isQueryH(m, i)], 1, <<>>,
                      mergeUnmappedOnly)[2]))

-----------------------------------------------------------------------------
(* The molecules a behaviour starts from.                                  *)

\* a molecule with n conformers and its property caches up to date
Mol(atoms, bonds, n) ==
  updateMolPropertyCache(
    [atoms |-> atoms, bonds |-> bonds,
     confs |-> [c \in 1..n |-> [i \in DOMAIN atoms |-> NewPos(FALSE)]],
     is3D |-> [c \in 1..n |-> TRUE]])

Carbon == NewAtom(6)
Fluorine == NewAtom(9)

\* a hydrogen atom of the graph
Hydrogen(marked, iso, q) ==
  [NewAtom(1) EXCEPT !.isImplicit = marked, !.iso = iso, !.query = q]

HKinds ==
  {Hydrogen(mk, iso, q) :
     mk \in BOOLEAN, iso \in {0, 2}, q \in {NoQuery, makeAtomNumQuery(1)}}

\* a centre atom with k fluorine neighbours and no hydrogen in the graph
Star(centre, k, n) ==
  Mol(<<centre>> \o [i \in 1..k |-> Fluorine],
      [i \in 1..k |-> NewBond(1, i + 1, SINGLE)], n)

Centres ==
  {NewAtom(6), NewAtom(7), NewAtom(16),
   [NewAtom(6) EXCEPT !.chiral = CHI_TETRAHEDRAL_CW],
   [NewAtom(7) EXCEPT !.chiral = CHI_TETRAHEDRAL_CCW],
   [NewAtom(7) EXCEPT !.arom = TRUE],
   [NewAtom(6) EXCEPT !.explHs = 1],
   [NewAtom(7) EXCEPT !.explHs = 1, !.noImplicit = TRUE],
   [NewAtom(16) EXCEPT !.noImplicit = TRUE]}

PlainMols == {Star(c, k, 1) : c \in Centres, k \in 0..3}

\* one hydrogen of the graph and one other atom x, bonded or not, in either
\* index order
PairMols ==
  {Mol(<<x, h>>, <<NewBond(1, 2, SINGLE)>>, n) :
     x \in {Carbon, NewAtom(0)}, h \in HKinds, n \in 0..MaxConfs}
  \cup {Mol(<<h, x>>, <<NewBond(2, 1, SINGLE)>>, n) :
     x \in {Carbon, NewAtom(0)}, h \in HKinds, n \in 0..MaxConfs}
  \cup {Mol(<<Carbon, h>>, <<>>, n) : h \in HKinds, n \in 0..MaxConfs}

\* a hydrogen between two carbons, and a carbon with two hydrogens
BridgeMols ==
  {Mol(<<Carbon, h, Carbon>>, <<NewBond(1, 2, SINGLE), NewBond(2, 3, SINGLE)>>, 1) :
     h \in {Hydrogen(FALSE, 0, NoQuery), Hydrogen(TRUE, 0, NoQuery)}}
  \cup {Mol(<<h, Carbon, [h EXCEPT !.mapNum = 3]>>,
            <<NewBond(2, 1, SINGLE), NewBond(2, 3, SINGLE)>>, 1) :
     h \in {Hydrogen(FALSE, 0, NoQuery)}}

\* [#1&+0]: a query atom that asks for a hydrogen without charge
ChargelessH ==
  [NewAtom(1) EXCEPT
     !.query = expandQuery(makeAtomNumQuery(1),
                           [desc |-> "AtomFormalCharge", neg |-> FALSE,
                            val |-> 0, kids |-> <<>>])]

\* a carbon with the query atom [#1&+0], which has a hydrogen of its own or
\* has none
QueryHMols ==
  {Mol(<<Carbon, ChargelessH, Hydrogen(FALSE, 0, NoQuery)>>,
       <<NewBond(1, 2, SINGLE), NewBond(2, 3, SINGLE)>>, 0),
   Mol(<<Hydrogen(FALSE, 0, NoQuery), ChargelessH, Carbon>>,
       <<NewBond(1, 2, SINGLE), NewBond(2, 3, SINGLE)>>, 0),
   Mol(<<Carbon, ChargelessH>>, <<NewBond(1, 2, SINGLE)>>, 0)}

\* [C:2]([H:3])[H] with the property intProp set on the carbon
\* (catch_tests.cpp lines 53-56), and the same with a fluorine and the
\* hydrogen first
MappedMols ==
  {Mol(<<[Carbon EXCEPT !.mapNum = 2, !.intProp = 42],
         [Hydrogen(FALSE, 0, NoQuery) EXCEPT !.mapNum = 3],
         Hydrogen(FALSE, 0, NoQuery)>>,
       <<NewBond(1, 2, SINGLE), NewBond(1, 3, SINGLE)>>, 0),
   Mol(<<Hydrogen(FALSE, 0, NoQuery),
         [Carbon EXCEPT !.mapNum = 2, !.intProp = 42], Fluorine>>,
       <<NewBond(2, 1, SINGLE), NewBond(2, 3, SINGLE)>>, 0)}

\* C1CCCC1
Ring5 ==
  Mol([i \in 1..5 |-> Carbon],
      [i \in 1..5 |-> NewBond(i, (i % 5) + 1, SINGLE)], 1)

\* a double bond with its stereo label and stereo atoms, a single bond with
\* its direction
StereoBond(b, e, st, sa) ==
  [NewBond(b, e, DOUBLE) EXCEPT !.stereo = st, !.satoms = sa]

DirBond(b, e, d) == [NewBond(b, e, SINGLE) EXCEPT !.dir = d]

Stereos == {STEREOZ, STEREOE, STEREOCIS, STEREOTRANS}
Dirs == {DIR_NONE, DIR_UNKNOWN, ENDUPRIGHT}

\* H-A=B-Y: the hydrogen (atom 3) is the only other neighbour of A (atom 1)
\* and a stereo atom of A=B
EndMols ==
  {Mol(<<Carbon, Carbon, Hydrogen(mk, 0, NoQuery), Fluorine>>,
       <<StereoBond(1, 2, st, <<3, 4>>), DirBond(1, 3, d),
         NewBond(2, 4, SINGLE)>>, 1) :
     mk \in BOOLEAN, st \in Stereos, d \in Dirs}

\* (H)(X)A=B-Y: A has the hydrogen (atom 3) and X (atom 4); the bond to the
\* hydrogen comes first or last among the bonds of A and begins at A or at
\* the hydrogen
SideMols ==
  {Mol(<<Carbon, Carbon, Hydrogen(mk, 0, NoQuery), Fluorine, Fluorine>>,
       IF hFirst
       THEN <<hb, StereoBond(1, 2, st, <<3, 5>>), NewBond(1, 4, SINGLE),
              NewBond(2, 5, SINGLE)>>
       ELSE <<StereoBond(1, 2, st, <<3, 5>>), NewBond(1, 4, SINGLE), hb,
              NewBond(2, 5, SINGLE)>>, 1) :
     mk \in BOOLEAN, st \in {STEREOE, STEREOCIS, STEREOTRANS},
     hFirst \in BOOLEAN,
     hb \in {DirBond(1, 3, d) : d \in Dirs} \cup {DirBond(3, 1, d) : d \in Dirs}}

\* (H)(X)A=B(H)(Y) with both hydrogens (atoms 5 and 6) the stereo atoms, the
\* bonds in the order of the mol block of catch_tests.cpp lines 640-768
TwoHMols ==
  {Mol(<<Carbon, Carbon, Fluorine, Fluorine, Hydrogen(mk, 0, NoQuery),
         Hydrogen(mk, 0, NoQuery)>>,
       <<NewBond(1, 5, SINGLE), StereoBond(1, 2, st, <<5, 6>>),
         NewBond(1, 3, SINGLE), NewBond(2, 6, SINGLE),
         NewBond(2, 4, SINGLE)>>, 1) :
     mk \in BOOLEAN, st \in Stereos}

\* a sulfur A (atom 1) with two stereo double bonds A=B and A=D that both
\* have the hydrogen (atom 4) as a stereo atom
TwoBondMols ==
  {Mol(<<NewAtom(16), Carbon, Carbon, Hydrogen(mk, 0, NoQuery), Fluorine,
         Fluorine, Fluorine>>,
       <<StereoBond(1, 2, s1, <<4, 6>>), StereoBond(1, 3, s2, <<4, 7>>),
         NewBond(1, 4, SINGLE), NewBond(1, 5, SINGLE), NewBond(2, 6, SINGLE),
         NewBond(3, 7, SINGLE)>>, 1) :
     mk \in BOOLEAN, s1 \in {STEREOCIS, STEREOTRANS},
     s2 \in {STEREOCIS, STEREOTRANS}}

\* a carbon with a chiral tag (atom 1), three fluorines and one hydrogen
\* (atom 5) whose bond is the p-th bond of the carbon
ChiralMols ==
  {Mol(<<[Carbon EXCEPT !.chiral = tag], Fluorine, Fluorine, Fluorine,
         Hydrogen(mk, 0, NoQuery)>>,
       SubSeq(<<NewBond(1, 2, SINGLE), NewBond(1, 3, SINGLE),
                NewBond(1, 4, SINGLE)>>, 1, p - 1)
       \o <<NewBond(1, 5, SINGLE)>>
       \o SubSeq(<<NewBond(1, 2, SINGLE), NewBond(1, 3, SINGLE),
                   NewBond(1, 4, SINGLE)>>, p, 3), 1) :
     tag \in {CHI_TETRAHEDRAL_CW, CHI_TETRAHEDRAL_CCW}, mk \in BOOLEAN,
     p \in 1..4}

\* (H)(X)A=B-Y without stereo label: the bond of A (atom 1) to the hydrogen
\* (atom 3) has a direction and begins at A or at the hydrogen, the bond to
\* X (atom 4) begins at A or at X and has a direction or none
HandOverMols ==
  {Mol(<<Carbon, Carbon, Hydrogen(mk, 0, NoQuery), Fluorine, Fluorine>>,
       <<NewBond(1, 2, DOUBLE), hb, xb, NewBond(2, 5, SINGLE)>>, 1) :
     mk \in BOOLEAN,
     hb \in {DirBond(1, 3, d) : d \in {ENDUPRIGHT, ENDDOWNRIGHT}}
            \cup {DirBond(3, 1, d) : d \in {ENDUPRIGHT, ENDDOWNRIGHT}},
     xb \in {DirBond(1, 4, d) : d \in {DIR_NONE, ENDDOWNRIGHT}}
            \cup {DirBond(4, 1, d) : d \in {DIR_NONE, ENDDOWNRIGHT}}}

StereoMols ==
  EndMols \cup SideMols \cup TwoHMols \cup TwoBondMols \cup HandOverMols

\* a molecule with one conformer, 3-D or 2-D, and the atoms at the points pts
CoordMol(atoms, bonds, is3D, pts) ==
  updateMolPropertyCache(
    [atoms |-> atoms, bonds |-> bonds,
     confs |-> <<[i \in DOMAIN atoms |-> [placed |-> FALSE, p |-> pts[i]]]>>,
     is3D |-> <<is3D>>])

\* where a neighbour of an atom at (0,0,0) is drawn in the plane: one unit
\* to the right, up or to the left of it, or on top of it
Places ==
  {Point3D(Scale, 0, 0), Point3D(0, Scale, 0), Point3D(-Scale, 0, 0),
   Point3D(0, 0, 0)}

\* the ways to draw k neighbours at distinct places
Drawings(k) == {d \in [1..k -> Places] : \A i, j \in 1..k : i # j => d[i] # d[j]}

Hybridized(a, h) == [a EXCEPT !.hyb = h]

\* a carbon at (0,0,0), of a hybridization in hs, with k fluorines, drawn in
\* the plane
FlatStarsOf(hs, k) ==
  {CoordMol(<<Hybridized(Carbon, h)>> \o [i \in 1..k |-> Fluorine],
            [i \in 1..k |-> NewBond(1, i + 1, SINGLE)], FALSE,
            <<Point3D(0, 0, 0)>> \o d) :
     h \in hs, d \in Drawings(k)}

FlatStars ==
  FlatStarsOf({SP3, SP2, SP, HYB_UNSPECIFIED}, 0)
  \cup FlatStarsOf({SP3, SP2, SP, HYB_UNSPECIFIED}, 1)
  \cup FlatStarsOf({SP3, SP2}, 2) \cup FlatStarsOf({SP3, SP2}, 3)

\* the same with one neighbour above the plane, in a 3-D conformer
SolidStars ==
  {CoordMol(<<Hybridized(Carbon, h)>> \o [i \in 1..k |-> Fluorine],
            [i \in 1..k |-> NewBond(1, i + 1, SINGLE)], TRUE,
            <<Point3D(0, 0, 0)>>
            \o SubSeq(<<Point3D(0, 0, Scale), Point3D(Scale, 0, 0),
                        Point3D(0, Scale, 0)>>, 1, k)) :
     h \in {SP3, SP2}, k \in 0..3}

\* an SP2 atom x at (0,0,0) whose one neighbour, a carbon, is joined to it
\* by bond bd and has n further neighbours, drawn in the plane
Chain(x, bd, n) ==
  CoordMol(<<Hybridized(x, SP2), Carbon>> \o [i \in 1..n |-> Fluorine],
           <<bd>> \o [i \in 1..n |-> NewBond(2, 3, SINGLE)], FALSE,
           <<Point3D(0, 0, 0), Point3D(Scale, 0, 0)>>
           \o [i \in 1..n |-> Point3D(2 * Scale, Scale, 0)])

ChainMols ==
  {Chain(x, [NewBond(1, 2, t) EXCEPT !.isAromatic = ar], n) :
     x \in {Carbon, NewAtom(7)}, t \in {SINGLE, DOUBLE}, ar \in BOOLEAN,
     n \in 0..1}

\* a sulfur, at (0,0,0) or at (2,2,0), with four fluorines around it and
\* one hydrogen to come as explicit
CrowdedMols ==
  {CoordMol(<<[NewAtom(16) EXCEPT !.explHs = 1], Fluorine, Fluorine, Fluorine,
              Fluorine>>,
            [i \in 1..4 |-> NewBond(1, i + 1, SINGLE)], is3D,
            [i \in 1..5 |->
               plus(at, <<Point3D(0, 0, 0), Point3D(Scale, 0, 0),
                          Point3D(0, Scale, 0), Point3D(-Scale, 0, 0),
                          Point3D(0, -Scale, 0)>>[i])]) :
     is3D \in BOOLEAN, at \in {Point3D(0, 0, 0), Point3D(2 * Scale, 2 * Scale, 0)}}

\* a carbon at (0,0,0) with k fluorines, the first at (1,0,0), in two
\* conformers, each 3-D or 2-D
TwoConfMols ==
  {updateMolPropertyCache(
     [atoms |-> <<Hybridized(Carbon, h)>> \o [i \in 1..k |-> Fluorine],
      bonds |-> [i \in 1..k |-> NewBond(1, i + 1, SINGLE)],
      confs |-> [c \in 1..2 |->
                   [i \in 1..(k + 1) |->
                      [placed |-> FALSE,
                       p |-> <<Point3D(0, 0, 0), Point3D(Scale, 0, 0)>>[i]]]],
      is3D |-> <<d1, d2>>]) :
     h \in {SP3, HYB_UNSPECIFIED}, k \in 0..1, d1 \in BOOLEAN, d2 \in BOOLEAN}

CoordMols ==
  FlatStars \cup SolidStars \cup ChainMols \cup CrowdedMols \cup TwoConfMols

NoOp ==
  [name |-> "none", explicitOnly |-> FALSE, addCoords |-> FALSE,
   only |-> AllAtoms, implicitOnly |-> FALSE, updateExplicitCount |-> FALSE,
   sanitize |-> FALSE, mergeUnmappedOnly |-> FALSE, bond |-> 0,
   numAddHyds |-> 0, removed |-> <<>>, sanitized |-> FALSE, threw |-> FALSE,
   ok |-> TRUE, hasResult |-> FALSE, result |-> NoMol, released |-> FALSE]

\* C-N, each atom with an explicit-H count of 1 and implicit hydrogens too
CountedPair ==
  Mol(<<[Carbon EXCEPT !.explHs = 1], [NewAtom(7) EXCEPT !.explHs = 1]>>,
      <<NewBond(1, 2, SINGLE)>>, 1)

InitMols ==
  PlainMols \cup PairMols \cup BridgeMols \cup {Ring5} \cup StereoMols
  \cup ChiralMols \cup QueryHMols \cup MappedMols \cup {CountedPair}

Init ==
  /\ mol \in InitMols
  /\ pre = mol
  /\ orig = mol
  /\ op = NoOp
  /\ ops = <<>>

-----------------------------------------------------------------------------
(* The operations.                                                         *)

\* the calls of the three operations so far, and the bonds cut so far
Calls == Len(SelectSeq(ops, LAMBDA o : o.name # "removeBond"))
Cuts == Len(ops) - Calls

Called(m, o) ==
  /\ pre' = mol
  /\ mol' = m
  /\ op' = o
  /\ ops' = Append(ops, o)
  /\ UNCHANGED orig

\* MolOps::addHs(mol, explicitOnly, addCoords, onlyOnAtoms)
AddHs ==
  /\ Calls < MaxOps
  /\ \E explicitOnly \in BOOLEAN, addCoords \in BOOLEAN,
        only \in {AllAtoms} \cup {OnlyOn({i}) : i \in {1} \cap (1..NumAtoms(mol))} :
       Called(addHs(mol, explicitOnly, addCoords, only),
              [NoOp EXCEPT !.name = "addHs", !.explicitOnly = explicitOnly,
                           !.addCoords = addCoords, !.only = only,
                           !.numAddHyds = numAddHyds(mol, explicitOnly, only, 1)])

\* the molecule is what the call r left of it
Returned(r, o) ==
  Called(r.m, [o EXCEPT !.removed = r.removed, !.sanitized = r.sanitized,
                        !.threw = r.threw, !.ok = r.ok])

Merged(r, o) ==
  Called(r.m, [o EXCEPT !.ok = r.ok,
                        !.removed = [i \in 1..NumAtoms(mol) |->
                                       ~SeqContains(r.ids, i)]])

\* MolOps::removeHs(mol, implicitOnly, updateExplicitCount, sanitize)
RemoveHs ==
  /\ Calls < MaxOps
  /\ \E implicitOnly \in BOOLEAN, updateExplicitCount \in BOOLEAN,
        sanitize \in BOOLEAN :
       Returned(removeHs(mol, implicitOnly, updateExplicitCount, sanitize),
                [NoOp EXCEPT !.name = "removeHs",
                             !.implicitOnly = implicitOnly,
                             !.updateExplicitCount = updateExplicitCount,
                             !.sanitize = sanitize])

\* MolOps::mergeQueryHs(mol, mergeUnmappedOnly)
MergeQueryHs ==
  /\ Calls < MaxOps
  /\ \E mergeUnmappedOnly \in BOOLEAN :
       Merged(mergeQueryHs(mol, mergeUnmappedOnly),
              [NoOp EXCEPT !.name = "mergeQueryHs",
                           !.mergeUnmappedOnly = mergeUnmappedOnly])

\* RWMol::removeBond on a bond to a hydrogen that addHs has just added, as
\* a caller does between the operations (catch_tests.cpp line 72)
RemoveBond ==
  /\ Calls < MaxOps
  /\ Cuts < MaxCuts
  /\ op.name = "addHs"
  /\ \E k \in 1..NumBonds(mol) :
       /\ mol.bonds[k].e > NumAtoms(pre)
       /\ Called(removeBond(mol, k),
                 [NoOp EXCEPT !.name = "removeBond", !.bond = k])

Next == AddHs \/ RemoveHs \/ MergeQueryHs \/ RemoveBond

Spec == Init /\ [][Next]_vars

\* the caller has what the call c of the copying removeHs left: its own
\* molecule, and the molecule returned, if one was
Copied(c, o) ==
  Called(c.input, [o EXCEPT !.removed = c.removed, !.sanitized = c.sanitized,
                            !.threw = c.threw, !.ok = c.ok,
                            !.hasResult = c.hasResult, !.result = c.result,
                            !.released = c.released])

\* MolOps::removeHs(const ROMol &mol, implicitOnly, updateExplicitCount,
\* sanitize)
RemoveHsCopy ==
  /\ Calls < MaxOps
  /\ \E implicitOnly \in BOOLEAN, updateExplicitCount \in BOOLEAN,
        sanitize \in BOOLEAN :
       Copied(removeHsCopy(mol, removeHs(RWMolCopy(mol), implicitOnly,
                                         updateExplicitCount, sanitize)),
              [NoOp EXCEPT !.name = "removeHsCopy",
                           !.implicitOnly = implicitOnly,
                           !.updateExplicitCount = updateExplicitCount,
                           !.sanitize = sanitize])

NextCopy == RemoveHsCopy \/ AddHs

\* the copying removeHs, and addHs to work on the molecule
SpecCopy == Init /\ [][NextCopy]_vars

-----------------------------------------------------------------------------
(* addHs with addResidueInfo, AssignHsResidueInfo running loop round by    *)
(* loop round.  Here op is [name, pc, explicitOnly, addResidueInfo,        *)
(* stopIdx, loc]: pc is "idle" before the first call, "assign" while        *)
(* AssignHsResidueInfo runs and "done" when the call has returned.         *)

\* residue info of a heavy atom of residue resNum in chain chain
Residue(serial, resNum, chain) ==
  AtomPDBResidueInfo(<<" ", "C", "A", " ">>, serial, resNum, chain)

\* k fluorines, not bonded, the i-th of residue rs[i] of chain "A"
Fluorines(rs) ==
  Mol([i \in DOMAIN rs |-> [Fluorine EXCEPT !.info = Residue(i, rs[i], "A")]],
      <<>>, 0)

ResidueMols ==
  UNION {{Fluorines(rs) : rs \in [1..k -> {1, 2}]} : k \in 1..3}
  \cup
  {Mol(<<[Fluorine EXCEPT !.info = Residue(1, 1, "A")],
         [Fluorine EXCEPT !.info = Residue(2, 1, "B")]>>, <<>>, 0),
   Mol(<<Fluorine, [Carbon EXCEPT !.info = Residue(7, 1, "A")]>>, <<>>, 0),
   Mol(<<[Carbon EXCEPT !.info = Residue(1, 1, "A")],
         [Carbon EXCEPT !.info = Residue(2, 1, "A")]>>,
       <<NewBond(1, 2, SINGLE)>>, 0),
   Mol(<<[Carbon EXCEPT !.info = Residue(1, 1, "A")],
         Hydrogen(FALSE, 0, NoQuery)>>,
       <<NewBond(1, 2, SINGLE)>>, 0),
   Mol(<<[Carbon EXCEPT !.info = Residue(1, 1, "A")],
         [Hydrogen(FALSE, 0, NoQuery) EXCEPT
            !.info = AtomPDBResidueInfo(<<" ", "H", "1", " ">>, 2, 1, "A")]>>,
       <<NewBond(1, 2, SINGLE)>>, 0)}

Idle ==
  [name |-> "none", pc |-> "idle", explicitOnly |-> FALSE,
   addResidueInfo |-> FALSE, stopIdx |-> 0, loc |-> assignStart(NoMol)]

InitResidue ==
  /\ mol \in ResidueMols
  /\ pre = mol
  /\ orig = mol
  /\ op = Idle
  /\ ops = <<>>

\* a call has been made on mol and has left m; o says which
Entered(m, o) ==
  /\ pre' = mol
  /\ mol' = m
  /\ op' = [o EXCEPT !.stopIdx = NumAtoms(m), !.loc = assignStart(m)]
  /\ ops' = Append(ops, o.name)
  /\ UNCHANGED orig

\* addHs(mol, explicitOnly, false, NULL, addResidueInfo) up to line 487
CallAddHs ==
  /\ op.pc \in {"idle", "done"}
  /\ Len(ops) < MaxOps
  /\ \E explicitOnly \in BOOLEAN, addResidueInfo \in BOOLEAN :
       Entered(addHs(mol, explicitOnly, FALSE, AllAtoms),
               [Idle EXCEPT !.name = "addHs",
                            !.pc = IF addResidueInfo THEN "assign" ELSE "done",
                            !.explicitOnly = explicitOnly,
                            !.addResidueInfo = addResidueInfo])

\* removeHs(mol, implicitOnly, false, false)
CallRemoveHs ==
  /\ op.pc \in {"idle", "done"}
  /\ Len(ops) < MaxOps
  /\ \E implicitOnly \in BOOLEAN :
       Entered(removeHs(mol, implicitOnly, FALSE, FALSE).m,
               [Idle EXCEPT !.name = "removeHs", !.pc = "done"])

\* mergeQueryHs(mol, mergeUnmappedOnly)
CallMergeQueryHs ==
  /\ op.pc \in {"idle", "done"}
  /\ Len(ops) < MaxOps
  /\ \E mergeUnmappedOnly \in BOOLEAN :
       Entered(mergeQueryHs(mol, mergeUnmappedOnly).m,
               [Idle EXCEPT !.name = "mergeQueryHs", !.pc = "done"])

\* AssignHsResidueInfo has its locals at loc and the molecule at m
Stepped(m, loc) ==
  /\ mol' = m
  /\ op' = [op EXCEPT !.loc = loc]
  /\ UNCHANGED <<pre, orig, ops>>

\* line 367: aidx == stopIdx, AssignHsResidueInfo and addHs return
AssignReturn ==
  /\ op.pc = "assign"
  /\ assignOver(mol, op.stopIdx, op.loc)
  /\ op' = [op EXCEPT !.pc = "done"]
  /\ UNCHANGED <<mol, pre, orig, ops>>

\* lines 367-374: on to the next atom
NextAtom ==
  /\ op.pc = "assign"
  /\ ~assignOver(mol, op.stopIdx, op.loc)
  /\ atEnd(mol, op.loc)
  /\ Stepped(mol, nextAtom(op.loc))

\* lines 375, 403: the neighbour is no hydrogen
PassHeavy ==
  /\ op.pc = "assign"
  /\ ~assignOver(mol, op.stopIdx, op.loc)
  /\ ~atEnd(mol, op.loc)
  /\ mol.atoms[atBegin(mol, op.loc)].num # 1
  /\ Stepped(mol, nextNbr(op.loc))

\* lines 375-383: the neighbour is a hydrogen that has residue info
SkipLabelled ==
  /\ op.pc = "assign"
  /\ ~assignOver(mol, op.stopIdx, op.loc)
  /\ ~atEnd(mol, op.loc)
  /\ mol.atoms[atBegin(mol, op.loc)].num = 1
  /\ mol.atoms[atBegin(mol, op.loc)].info.has
  /\ Stepped(mol, skipLabelled(op.loc))

\* lines 375-403: the neighbour is a hydrogen without residue info
LabelH ==
  /\ op.pc = "assign"
  /\ ~assignOver(mol, op.stopIdx, op.loc)
  /\ ~atEnd(mol, op.loc)
  /\ mol.atoms[atBegin(mol, op.loc)].num = 1
  /\ ~mol.atoms[atBegin(mol, op.loc)].info.has
  /\ Stepped(labelled(mol, renewed(mol, op.loc),
                      renewed(mol, op.loc).current_h_id),
             afterLabel(renewed(mol, op.loc)))

\* one round of a loop of AssignHsResidueInfo, or its return
AssignStep == AssignReturn \/ NextAtom \/ PassHeavy \/ SkipLabelled \/ LabelH

NextResidue ==
  CallAddHs \/ CallRemoveHs \/ CallMergeQueryHs \/ AssignReturn \/ NextAtom
  \/ PassHeavy \/ SkipLabelled \/ LabelH

\* a call that has been made keeps running
SpecResidue ==
  InitResidue /\ [][NextResidue]_vars /\ WF_vars(AssignStep)

-----------------------------------------------------------------------------
(* mergeQueryHs on atoms whose queries are expression trees.               *)

Leaf(desc, neg, val) == [desc |-> desc, neg |-> neg, val |-> val, kids |-> <<>>]

Node(desc, neg, kids) == [desc |-> desc, neg |-> neg, val |-> 0, kids |-> kids]

\* #1, !#1, #6 and +0
Leaves ==
  {Leaf("AtomAtomicNum", FALSE, 1), Leaf("AtomAtomicNum", TRUE, 1),
   Leaf("AtomAtomicNum", FALSE, 6), Leaf("AtomFormalCharge", FALSE, 0)}

Combinators == {"AtomAnd", "AtomOr"}

\* two leaves under a combinator, negated or not
Trees1 ==
  {Node(d, n, <<l1, l2>>) :
     d \in Combinators, n \in BOOLEAN, l1 \in Leaves, l2 \in Leaves}

\* a combinator over a leaf and a combinator over two leaves
Trees2 ==
  {Node(d, FALSE, <<l, Node(d2, n2, <<l1, l2>>)>>) :
     d \in Combinators, d2 \in Combinators, n2 \in BOOLEAN,
     l \in {Leaf("AtomAtomicNum", FALSE, 1), Leaf("AtomFormalCharge", FALSE, 0)},
     l1 \in {Leaf("AtomAtomicNum", FALSE, 1), Leaf("AtomAtomicNum", TRUE, 1)},
     l2 \in {Leaf("AtomAtomicNum", FALSE, 1), Leaf("AtomFormalCharge", FALSE, 0)}}

\* a carbon with one query atom whose query is q
QueryTreeMol(q) ==
  Mol(<<Carbon, [NewAtom(1) EXCEPT !.query = q]>>, <<NewBond(1, 2, SINGLE)>>, 0)

QueryTreeMols ==
  {QueryTreeMol(q) : q \in Trees1 \cup Trees2 \cup Leaves}

InitQuery ==
  /\ mol \in QueryTreeMols
  /\ pre = mol
  /\ orig = mol
  /\ op = NoOp
  /\ ops = <<>>

NextQuery == MergeQueryHs \/ RemoveHs

SpecQuery == InitQuery /\ [][NextQuery]_vars

-----------------------------------------------------------------------------
(* addHs and removeHs called over and over on one molecule.                *)

\* MolOps::addHs(mol, false, false)
AddAllHs ==
  /\ Len(ops) < MaxCalls
  /\ Called(addHs(mol, FALSE, FALSE, AllAtoms), [NoOp EXCEPT !.name = "addHs"])

\* MolOps::removeHs(mol, implicitOnly, updateExplicitCount, false)
RemoveHsAgain ==
  /\ Len(ops) < MaxCalls
  /\ \E implicitOnly \in BOOLEAN, updateExplicitCount \in BOOLEAN :
       Returned(removeHs(mol, implicitOnly, updateExplicitCount, FALSE),
                [NoOp EXCEPT !.name = "removeHs",
                             !.implicitOnly = implicitOnly,
                             !.updateExplicitCount = updateExplicitCount])

InitAgain ==
  /\ mol \in PlainMols
  /\ pre = mol
  /\ orig = mol
  /\ op = NoOp
  /\ ops = <<>>

NextAgain == AddAllHs \/ RemoveHsAgain

SpecAgain == InitAgain /\ [][NextAgain]_vars

\* the operations on molecules that come with coordinates
InitCoords ==
  /\ mol \in CoordMols
  /\ pre = mol
  /\ orig = mol
  /\ op = NoOp
  /\ ops = <<>>

NextCoords == AddHs \/ RemoveHs

SpecCoords == InitCoords /\ [][NextCoords]_vars

-----------------------------------------------------------------------------
(* What the operations guarantee, read off the molecule before the last    *)
(* call (pre), the molecule after it (mol) and the call's record (op).     *)

\* removeHs took out the atom that had index o when it was called
Removed(o) == o \in DOMAIN op.removed /\ op.removed[o]

\* the index after removeHs of the atom that had index o when it was called
NewIdx(o) == o - Cardinality({x \in 1..(o - 1) : Removed(x)})

\* the hydrogens of molecule m
Hydrogens(m) == {i \in 1..NumAtoms(m) : m.atoms[i].num = 1}

\* addHs on all atoms with explicitOnly=false, then removeHs with
\* implicitOnly=true and updateExplicitCount=false, on a molecule that had
\* no hydrogen atom and no explicit-H count
RoundTrip ==
  /\ Len(ops) = 2
  /\ ops[1].name = "addHs" /\ ~ops[1].explicitOnly /\ ~ops[1].only.given
  /\ ops[2].name = "removeHs" /\ ops[2].implicitOnly
  /\ ~ops[2].updateExplicitCount
  /\ \A i \in 1..NumAtoms(orig) :
       orig.atoms[i].num # 1 /\ orig.atoms[i].explHs = 0

\* lines 645-646 and 656-659 on the atom as it was before the round trip:
\* removeHs books a removed hydrogen of this atom as an explicit one
KeepsHsExplicit(i) ==
  \/ orig.atoms[i].chiral # CHI_UNSPECIFIED
  \/ (orig.atoms[i].num \in {7, 15} /\ orig.atoms[i].arom)
  \/ \E k \in 2..Len(getValenceList(orig.atoms[i].num)) :
       getValenceList(orig.atoms[i].num)[k] = getTotalValence(orig.atoms[i])

\* C1, as stated: the round trip gives back the number of atoms and, for
\* every atom, whatever its chiral tag, aromaticity, element or valence
\* state, its implicit-hydrogen count.
C1_RoundTripAsStated ==
  RoundTrip =>
    /\ NumAtoms(mol) = NumAtoms(orig)
    /\ \A i \in 1..NumAtoms(orig) :
         calcImplicitValence(mol, i) = calcImplicitValence(orig, i)

\* C1, amended: the round trip gives back the number of atoms and, for every
\* atom, its hydrogen count (explicit plus implicit); the implicit-hydrogen
\* count itself comes back on every atom that has no chiral tag, is no
\* aromatic N or P and is not in one of the higher default valences of its
\* element, and on the other atoms the hydrogens come back as explicit ones.
C1_RoundTrip ==
  RoundTrip =>
    /\ NumAtoms(mol) = NumAtoms(orig)
    /\ \A i \in 1..NumAtoms(orig) :
         /\ mol.atoms[i].explHs + calcImplicitValence(mol, i)
              = calcImplicitValence(orig, i)
         /\ ~KeepsHsExplicit(i) =>
              /\ mol.atoms[i].explHs = 0
              /\ calcImplicitValence(mol, i) = calcImplicitValence(orig, i)
         /\ KeepsHsExplicit(i) =>
              mol.atoms[i].explHs = calcImplicitValence(orig, i)

\* C1: a round trip that added and removed hydrogens of an atom of an
\* element with several default valences, in its lowest one
C1_Witness ==
  /\ RoundTrip
  /\ NumAtoms(pre) > NumAtoms(mol)
  /\ \E i \in 1..NumAtoms(orig) :
       /\ orig.atoms[i].num = 16
       /\ ~KeepsHsExplicit(i)
       /\ calcImplicitValence(orig, i) > 0

\* the hydrogens addHs is asked for on atom i of pre
HsAsked(i) ==
  IF selected(op.only, i)
  THEN pre.atoms[i].explHs
       + (IF op.explicitOnly THEN 0 ELSE getNumImplicitHs(pre.atoms[i]))
  ELSE 0

\* C2: after addHs the atoms that were there are where they were; each of
\* them has got as many new neighbours as it had explicit Hs plus (unless
\* explicitOnly) implicit Hs when it is selected, and none when it is not;
\* every new atom is a hydrogen with exactly one bond, to an atom that was
\* there; the number of new atoms is numAddHyds; C1CCCC1 goes to 15 atoms.
C2_AddHsCount ==
  op.name = "addHs" =>
    /\ NumAtoms(mol) = NumAtoms(pre) + op.numAddHyds
    /\ \A i \in 1..NumAtoms(pre) :
         /\ mol.atoms[i].num = pre.atoms[i].num
         /\ Cardinality({j \in (NumAtoms(pre) + 1)..NumAtoms(mol) :
                           bondBetween(mol, i, j) # 0}) = HsAsked(i)
    /\ \A j \in (NumAtoms(pre) + 1)..NumAtoms(mol) :
         /\ mol.atoms[j].num = 1
         /\ getDegree(mol, j) = 1
         /\ atomNeighbors(mol, j)[1] <= NumAtoms(pre)
    /\ (pre = Ring5 /\ ~op.explicitOnly /\ ~op.only.given) =>
         NumAtoms(mol) = 15

\* C2: addHs has turned the ring of five carbons into 15 atoms
C2_Witness ==
  /\ op.name = "addHs"
  /\ pre = Ring5
  /\ NumAtoms(mol) = 15
  /\ op.numAddHyds = 10

\* C3: when every call so far has returned, each conformer of the molecule
\* holds exactly one position per atom.
C3_ConformerLength ==
  (\A k \in DOMAIN ops : ops[k].ok) =>
    \A c \in DOMAIN mol.confs : Len(mol.confs[c]) = NumAtoms(mol)

\* C3: hydrogens were added without coordinates to a molecule that has a
\* conformer, and a later call took atoms out again
C3_Witness ==
  /\ Len(ops) = 2
  /\ ops[1].name = "addHs" /\ ~ops[1].addCoords /\ ops[1].numAddHyds > 0
  /\ ops[2].name \in {"removeHs", "mergeQueryHs"} /\ ops[2].ok
  /\ NumAtoms(mol) < NumAtoms(pre)
  /\ Len(mol.confs) > 0

\* addHs on C1CCCC1, one bond to a new hydrogen cut, then removeHs
RingWithLooseH ==
  /\ Len(ops) = 3
  /\ orig = Ring5
  /\ ops[1].name = "addHs" /\ ~ops[1].explicitOnly /\ ~ops[1].only.given
  /\ ops[2].name = "removeBond"
  /\ ops[3].name = "removeHs"

\* C4: removeHs returns without tripping "H has no neighbors!", having
\* looked at every atom; it removes no hydrogen of degree 0, marked
\* isImplicit or not; the ring of five carbons with ten hydrogens, one of
\* them cut loose, is left with 6 atoms.
C4_BondlessHStays ==
  op.name = "removeHs" =>
    /\ ~op.threw
    /\ Len(op.removed) = NumAtoms(pre)
    /\ \A o \in Hydrogens(pre) : getDegree(pre, o) = 0 => ~Removed(o)
    /\ RingWithLooseH => NumAtoms(mol) = 6

\* C4: the ring with the loose hydrogen has been through removeHs
C4_Witness ==
  /\ RingWithLooseH
  /\ NumAtoms(pre) = 15
  /\ \E o \in Hydrogens(pre) : getDegree(pre, o) = 0 /\ pre.atoms[o].isImplicit
  /\ NumAtoms(mol) = 6

\* C5: removeHs leaves every hydrogen with an isotope and without the
\* isImplicit marker where it is, whatever the flags.
C5_IsotopeHStays ==
  op.name = "removeHs" =>
    \A o \in Hydrogens(pre) :
      (pre.atoms[o].iso # 0 /\ ~pre.atoms[o].isImplicit) => ~Removed(o)

\* C5: removeHs, asked for all hydrogens, met a labelled hydrogen on a
\* carbon that it would have removed without the label
C5_Witness ==
  /\ op.name = "removeHs" /\ ~op.implicitOnly /\ ~op.threw
  /\ \E o \in Hydrogens(pre) :
       /\ pre.atoms[o].iso # 0
       /\ ~pre.atoms[o].isImplicit
       /\ ~hasQuery(pre.atoms[o])
       /\ getDegree(pre, o) = 1
       /\ pre.atoms[atomNeighbors(pre, o)[1]].num = 6
       /\ mol.atoms[NewIdx(o)] = pre.atoms[o]

\* hydrogen o of pre has one neighbour, and that is a dummy atom
OnDummy(o) ==
  /\ getDegree(pre, o) = 1
  /\ pre.atoms[atomNeighbors(pre, o)[1]].num = 0

\* C6: removeHs leaves every hydrogen of degree 1 whose neighbour is a dummy
\* atom where it is, with the isImplicit marker and without it.
C6_DummyHStays ==
  op.name = "removeHs" =>
    \A o \in Hydrogens(pre) : OnDummy(o) => ~Removed(o)

\* C6: removeHs met a hydrogen on a dummy atom that carries the isImplicit
\* marker and nothing else that would keep it
C6_Witness ==
  /\ op.name = "removeHs" /\ ~op.threw
  /\ \E o \in Hydrogens(pre) :
       /\ OnDummy(o)
       /\ pre.atoms[o].isImplicit
       /\ ~hasQuery(pre.atoms[o])
       /\ pre.atoms[o].iso = 0
       /\ mol.atoms[NewIdx(o)] = pre.atoms[o]

\* hydrogen o of molecule m is a stereo atom of a stereo double bond of its
\* one neighbour, which has no neighbour but the hydrogen and the other end
\* of the double bond
StereoRefAtBareEnd(m, o) ==
  /\ getDegree(m, o) = 1
  /\ getDegree(m, atomNeighbors(m, o)[1]) = 2
  /\ \E k \in 1..NumBonds(m) :
       /\ m.bonds[k].b = atomNeighbors(m, o)[1]
            \/ m.bonds[k].e = atomNeighbors(m, o)[1]
       /\ m.bonds[k].type = DOUBLE
       /\ m.bonds[k].stereo > STEREOANY
       /\ SeqContains(m.bonds[k].satoms, o)

\* C7: removeHs leaves every hydrogen that is a stereo atom of a stereo
\* double bond on a heavy atom of degree 2 where it is, with the isImplicit
\* marker and without it, for every value of implicitOnly.
C7_StereoHStays ==
  op.name = "removeHs" =>
    \A o \in Hydrogens(pre) : StereoRefAtBareEnd(pre, o) => ~Removed(o)

\* hydrogen o of pre is what removeHs, asked for all hydrogens, takes when
\* there is no query on it: unmarked, no isotope, its one neighbour a heavy
\* atom that is not the degree-2 end of a double bond with stereo or with a
\* direction on the bond to the hydrogen
PlainHOnHeavy(o) ==
  /\ ~pre.atoms[o].isImplicit
  /\ pre.atoms[o].iso = 0
  /\ getDegree(pre, o) = 1
  /\ pre.atoms[atomNeighbors(pre, o)[1]].num > 1
  /\ ~onlyNeighborAtStereoEnd(pre, o, atomNeighbors(pre, o)[1])

\* C8: removeHs removes no hydrogen that carries a query, whatever its
\* degree, isotope or marker; asked for all hydrogens, it removes the
\* query-free, unlabelled, unmarked hydrogen that is bonded to one heavy atom
\* (which is not the bare end of a stereo double bond).
C8_QueryHStays ==
  op.name = "removeHs" =>
    \A o \in Hydrogens(pre) :
      /\ hasQuery(pre.atoms[o]) => ~Removed(o)
      /\ (~hasQuery(pre.atoms[o]) /\ PlainHOnHeavy(o) /\ ~op.implicitOnly
          /\ ~op.threw)
           => Removed(o)

\* C8: removeHs, asked for all hydrogens, met a hydrogen with a query on a
\* carbon, which it would have removed without the query
C8_Witness ==
  /\ op.name = "removeHs" /\ ~op.implicitOnly /\ ~op.threw
  /\ \E o \in Hydrogens(pre) :
       /\ hasQuery(pre.atoms[o])
       /\ PlainHOnHeavy(o)
       /\ mol.atoms[NewIdx(o)] = pre.atoms[o]

\* every stereo double bond of m has two stereo atoms, each an atom of m
\* that is a neighbour of one of the bond's ends
StereoAtomsValid(m) ==
  \A k \in 1..NumBonds(m) :
    (m.bonds[k].type = DOUBLE /\ m.bonds[k].stereo > STEREOANY) =>
      /\ Len(m.bonds[k].satoms) = 2
      /\ \A p \in 1..2 :
           /\ m.bonds[k].satoms[p] \in 1..NumAtoms(m)
           /\ \/ bondBetween(m, m.bonds[k].satoms[p], m.bonds[k].b) # 0
              \/ bondBetween(m, m.bonds[k].satoms[p], m.bonds[k].e) # 0

\* C9: when the stereo atoms of every stereo double bond are valid before
\* removeHs, they are valid after it.
C9_StereoAtomsStayValid ==
  (op.name = "removeHs" /\ ~op.threw /\ StereoAtomsValid(pre))
    => StereoAtomsValid(mol)

\* STEREOCIS for STEREOTRANS and back, the other labels as they are
Flipped(st) ==
  IF st = STEREOCIS THEN STEREOTRANS
  ELSE IF st = STEREOTRANS THEN STEREOCIS
  ELSE st

\* the places in the stereo-atom list of bond bd of pre that name a
\* hydrogen which removeHs took off one of the bond's ends
HandedOver(bd) ==
  {p \in DOMAIN bd.satoms :
     /\ bd.satoms[p] \in Hydrogens(pre)
     /\ Removed(bd.satoms[p])
     /\ getDegree(pre, bd.satoms[p]) = 1
     /\ atomNeighbors(pre, bd.satoms[p])[1] \in {bd.b, bd.e}}

\* bond bd of pre as it is in mol, its ends being atoms a and b of mol: at
\* each place p that named a removed hydrogen of end A stands a neighbour of
\* A that is not the other end, and the label is flipped once per place
HandedOverRight(bd, a, b) ==
  /\ bondBetween(mol, a, b) # 0
  /\ Len(mol.bonds[bondBetween(mol, a, b)].satoms) = Len(bd.satoms)
  /\ \A p \in HandedOver(bd) :
       LET A == NewIdx(atomNeighbors(pre, bd.satoms[p])[1])
           got == mol.bonds[bondBetween(mol, a, b)].satoms[p]
       IN  /\ got \in 1..NumAtoms(mol)
           /\ bondBetween(mol, got, A) # 0
           /\ got \notin {a, b}
  /\ mol.bonds[bondBetween(mol, a, b)].stereo
       = IF Cardinality(HandedOver(bd)) % 2 = 1 THEN Flipped(bd.stereo)
         ELSE bd.stereo

\* C10: when removeHs removes hydrogen H from heavy atom A, then on every
\* double bond of A with stereo CIS, TRANS, E or Z whose stereo atoms name H
\* the entry becomes a neighbour of A that is not the other end, CIS becomes
\* TRANS and TRANS becomes CIS; so a TRANS bond that loses both its
\* hydrogens is TRANS again.
C10_StereoAtomsHandedOver ==
  (op.name = "removeHs" /\ ~op.threw) =>
    \A k \in 1..NumBonds(pre) :
      (/\ pre.bonds[k].type = DOUBLE
       /\ pre.bonds[k].stereo > STEREOANY
       /\ HandedOver(pre.bonds[k]) # {}
       /\ ~Removed(pre.bonds[k].b) /\ ~Removed(pre.bonds[k].e))
        => HandedOverRight(pre.bonds[k], NewIdx(pre.bonds[k].b),
                           NewIdx(pre.bonds[k].e))

\* removeHs, then addHs, on a molecule in which atom c has a chiral tag and
\* four neighbours, one of them the hydrogen h, which removeHs took out and
\* addHs put back as the last neighbour of c
OutAndBackIn(c, h) ==
  /\ Len(ops) = 2
  /\ ops[1].name = "removeHs" /\ ~ops[1].threw
  /\ ops[2].name = "addHs"
  /\ orig.atoms[c].chiral # CHI_UNSPECIFIED
  /\ getDegree(orig, c) = 4
  /\ Hydrogens(orig) \cap {atomNeighbors(orig, c)[k] : k \in 1..4} = {h}
  /\ ops[1].removed[h] /\ ~ops[1].removed[c]
  /\ getDegree(pre, c - Cardinality({x \in 1..(c - 1) : ops[1].removed[x]})) = 3
  /\ getDegree(mol, c - Cardinality({x \in 1..(c - 1) : ops[1].removed[x]})) = 4

\* the neighbours of c that come after h in the bond order of c: the
\* transpositions that take h to the end of the order
StepsToTheEnd(c, h) ==
  Cardinality({k \in 1..4 :
                 \E j \in 1..(k - 1) : atomNeighbors(orig, c)[j] = h})

\* C11: after removeHs and addHs the chiral tag of an atom with four
\* neighbours whose hydrogen went out and came back in as the last neighbour
\* differs from the tag before exactly when the permutation from the old
\* neighbour order to the new one is odd.
C11_ParityKept ==
  \A c \in 1..NumAtoms(orig) : \A h \in 1..NumAtoms(orig) :
    OutAndBackIn(c, h) =>
      LET c2 == c - Cardinality({x \in 1..(c - 1) : ops[1].removed[x]})
      IN  /\ mol.atoms[c2].chiral # CHI_UNSPECIFIED
          /\ (mol.atoms[c2].chiral # orig.atoms[c].chiral)
               <=> (StepsToTheEnd(c, h) % 2 = 1)

\* C11: the hydrogen was the second of the four neighbours, went out and
\* came back in as the last, and the tag is as it was
C11_Witness ==
  \E c \in 1..NumAtoms(orig) : \E h \in 1..NumAtoms(orig) :
    /\ OutAndBackIn(c, h)
    /\ atomNeighbors(orig, c)[2] = h
    /\ mol.atoms[c].chiral = orig.atoms[c].chiral

\* the one conformer of molecule m is 2-D and every atom of it has z = 0
FlatOnly(m) ==
  /\ Len(m.confs) = 1
  /\ ~m.is3D[1]
  /\ \A i \in 1..NumAtoms(m) : ~m.confs[1][i].p.nan /\ m.confs[1][i].p.z = 0

\* C12: every hydrogen that addHs with addCoords adds to a molecule whose
\* only conformer is 2-D with z = 0 throughout is placed at z = 0.
C12_FlatStaysFlat ==
  (op.name = "addHs" /\ op.addCoords /\ FlatOnly(pre)) =>
    \A i \in (NumAtoms(pre) + 1)..NumAtoms(mol) :
      /\ mol.confs[1][i].placed
      /\ ~mol.confs[1][i].p.nan
      /\ mol.confs[1][i].p.z = 0

\* the last two calls were mergeQueryHs with the same mergeUnmappedOnly and
\* both returned
MergedTwice ==
  /\ Len(ops) >= 2
  /\ ops[Len(ops)].name = "mergeQueryHs" /\ ops[Len(ops)].ok
  /\ ops[Len(ops) - 1].name = "mergeQueryHs" /\ ops[Len(ops) - 1].ok
  /\ ops[Len(ops)].mergeUnmappedOnly = ops[Len(ops) - 1].mergeUnmappedOnly

\* C13: a second mergeQueryHs with the same mergeUnmappedOnly leaves the
\* atoms, their queries and the bonds as the first call left them.
C13_MergeIdempotent ==
  MergedTwice => (mol.atoms = pre.atoms /\ mol.bonds = pre.bonds)

\* the neighbours of atom i that mergeQueryHs is to merge into it: those
\* that are query hydrogens when it is called and, when only unmapped ones
\* are to be merged, have no atom-map number
MergedInto(i) ==
  {h \in 1..NumAtoms(pre) :
     /\ bondBetween(pre, i, h) # 0
     /\ isQueryH(pre, h)
     /\ (op.mergeUnmappedOnly => pre.atoms[h].mapNum = 0)}

\* the atoms mergeQueryHs is to delete
ToDelete ==
  {h \in 1..NumAtoms(pre) :
     \E i \in 1..NumAtoms(pre) : ~isQueryH(pre, i) /\ h \in MergedInto(i)}

RECURSIVE WithHCounts(_, _)
\* query q with the negated queries "H count = 0", ..., "H count = n - 1"
WithHCounts(q, n) ==
  IF n = 0 THEN q
  ELSE expandQuery(WithHCounts(q, n - 1), makeNegatedHCountQuery(n - 1))

\* the molecule as the loop of mergeQueryHs leaves it, before the recorded
\* atoms are removed
AfterMergeLoop ==
  mergeLoop(pre, [i \in 1..NumAtoms(pre) |-> isQueryH(pre, i)], 1, <<>>,
            op.mergeUnmappedOnly)[1]

\* the query of atom i that the merge starts from: its own, or the query
\* for its atomic number
BaseQuery(i) ==
  IF hasQuery(pre.atoms[i]) THEN pre.atoms[i].query
  ELSE makeAtomNumQuery(pre.atoms[i].num)

\* C14: the loop of mergeQueryHs leaves an atom that is not a query hydrogen
\* and has n neighbours to merge with its query (or, if it had none, the
\* query for its atomic number) extended by the n negated H-count queries,
\* and unchanged if n = 0, and so the atom is when the call returns; a
\* mapped hydrogen is neither counted nor removed when only unmapped ones
\* are merged.
C14_HCountQueries ==
  (op.name = "mergeQueryHs") =>
    \A i \in 1..NumAtoms(pre) :
      /\ ~isQueryH(pre, i) =>
           /\ IF MergedInto(i) = {}
              THEN AfterMergeLoop.atoms[i] = pre.atoms[i]
              ELSE AfterMergeLoop.atoms[i].query =
                     WithHCounts(BaseQuery(i), Cardinality(MergedInto(i)))
           /\ (op.ok /\ ~Removed(i)) =>
                mol.atoms[NewIdx(i)] = AfterMergeLoop.atoms[i]
      /\ (isQueryH(pre, i) /\ op.mergeUnmappedOnly /\ pre.atoms[i].mapNum # 0
          /\ op.ok) =>
           /\ ~Removed(i)
           /\ mol.atoms[NewIdx(i)] = pre.atoms[i]

\* C14: a carbon with two hydrogens to merge has come out with "not H0" and
\* "not H1" added to the query for carbon
C14_Witness ==
  /\ op.name = "mergeQueryHs" /\ op.ok
  /\ \E i \in 1..NumAtoms(pre) :
       /\ ~isQueryH(pre, i) /\ ~hasQuery(pre.atoms[i]) /\ ~Removed(i)
       /\ Cardinality(MergedInto(i)) = 2
       /\ mol.atoms[NewIdx(i)].query =
            expandQuery(expandQuery(makeAtomNumQuery(6),
                                    makeNegatedHCountQuery(0)),
                        makeNegatedHCountQuery(1))

\* C15: mergeQueryHs returns, and the atoms it has deleted are exactly the
\* query hydrogens (unmapped, when only those are merged) that had a
\* neighbour that was not a query hydrogen.
C15_OnlyMergedHsDeleted ==
  (op.name = "mergeQueryHs") =>
    /\ op.ok
    /\ \A i \in 1..NumAtoms(pre) : op.removed[i] <=> i \in ToDelete

\* atom i of the molecule mergeQueryHs was called on had no query and has
\* neighbours to merge: it is replaced by a query atom
Replaced(i) ==
  ~isQueryH(pre, i) /\ ~hasQuery(pre.atoms[i]) /\ MergedInto(i) # {}

\* bond bd with its ends and stereo atoms renumbered as the removal of
\* atoms renumbers them
Renumbered(bd) ==
  [bd EXCEPT !.b = NewIdx(@), !.e = NewIdx(@),
             !.satoms = [k \in DOMAIN @ |-> NewIdx(@[k])]]

IndicesAltered ==
  \E i, j \in 1..NumAtoms(pre) : i < j /\ Removed(i) /\ ~Removed(j)

\* C17 as stated: removeHs calls sanitizeMol only if sanitize was asked for
\* and an atom index has changed.
C17_SanitizeOnlyIfAltered ==
  (op.name = "removeHs" /\ op.sanitized) => (op.sanitize /\ IndicesAltered)

\* C17: removeHs, when its loop runs to the end, calls sanitizeMol exactly
\* if sanitize was asked for and implicitOnly was not, whether or not an
\* atom was removed.
C17_SanitizeIfAsked ==
  (op.name = "removeHs" /\ ~op.threw) =>
    (op.sanitized <=> (op.sanitize /\ ~op.implicitOnly))

\* C17: removeHs has removed no atom and has called sanitizeMol
C17_Witness ==
  /\ op.name = "removeHs" /\ op.sanitize /\ ~op.implicitOnly
  /\ \A i \in 1..NumAtoms(pre) : ~Removed(i)
  /\ NumAtoms(mol) = NumAtoms(pre)
  /\ op.sanitized

\* C18: the copying removeHs leaves the molecule it is given as it is; when
\* sanitizeMol fails the copy is deleted and no molecule is returned;
\* otherwise the molecule returned is what removeHs in place makes of a
\* copy, and it is not deleted.
C18_CopyingRemoveHs ==
  (op.name = "removeHsCopy") =>
    /\ mol = pre
    /\ (op.sanitized /\ ~op.ok) => (op.released /\ ~op.hasResult)
    /\ ~(op.sanitized /\ ~op.ok) =>
         /\ op.hasResult /\ ~op.released
         /\ op.result = removeHs(pre, op.implicitOnly, op.updateExplicitCount,
                                 op.sanitize).m

\* C18: sanitizeMol has failed on the copy of a molecule with a hydrogen
\* between two carbons; the copy is deleted and the caller's molecule is as
\* it was
C18_Witness ==
  /\ op.name = "removeHsCopy" /\ op.sanitized /\ ~op.ok
  /\ op.released /\ ~op.hasResult
  /\ mol = pre
  /\ \E h \in Hydrogens(mol) : getDegree(mol, h) = 2

\* C19: a call of addHs that has got as far as AssignHsResidueInfo returns.
C19_AddHsReturns == (op.pc = "assign") ~> (op.pc = "done")

\* the hydrogens that the call of addHs that has returned has given
\* residue info
Labelled ==
  {h \in 1..NumAtoms(mol) :
     /\ mol.atoms[h].num = 1 /\ mol.atoms[h].info.has
     /\ (h > NumAtoms(pre) \/ ~pre.atoms[h].info.has)}

\* C20: when addHs with addResidueInfo has returned, the names it has given
\* to hydrogens are four characters long, and two hydrogens of the same
\* chain and residue number have different names.
C20_LabelsDistinct ==
  (op.name = "addHs" /\ op.addResidueInfo /\ op.pc = "done") =>
    \A h1 \in Labelled :
      /\ Len(mol.atoms[h1].info.name) = 4
      /\ \A h2 \in Labelled \ {h1} :
           (/\ mol.atoms[h1].info.resNum = mol.atoms[h2].info.resNum
            /\ mol.atoms[h1].info.chain = mol.atoms[h2].info.chain)
             => mol.atoms[h1].info.name # mol.atoms[h2].info.name

\* no two atoms of m that have residue info have the same serial number
SerialsDistinct(m) ==
  \A i, j \in 1..NumAtoms(m) :
    (i # j /\ m.atoms[i].info.has /\ m.atoms[j].info.has)
      => m.atoms[i].info.serial # m.atoms[j].info.serial

\* C21: when addHs with addResidueInfo has returned on a molecule whose
\* serial numbers were pairwise different, the serial numbers of all atoms
\* with residue info, those of the newly labelled hydrogens included, are
\* pairwise different.
C21_SerialsDistinct ==
  (op.name = "addHs" /\ op.addResidueInfo /\ op.pc = "done"
   /\ SerialsDistinct(pre))
    => SerialsDistinct(mol)

\* removeHs took out exactly one neighbour of atom c, the hydrogen that was
\* the k-th neighbour of c, and left c in
OneHOut(c, k) ==
  /\ op.name = "removeHs" /\ ~op.threw
  /\ ~Removed(c)
  /\ k \in 1..getDegree(pre, c)
  /\ {j \in 1..getDegree(pre, c) : Removed(atomNeighbors(pre, c)[j])} = {k}

\* C22: when removeHs takes one hydrogen from an atom with a chiral tag and
\* n bonds, the hydrogen's bond being the k-th of them (k from 1), the tag
\* is inverted exactly when n - k is odd; an atom without a tag gets none.
C22_ParityRule ==
  op.name = "removeHs" =>
    \A c \in 1..NumAtoms(pre) :
      /\ (~Removed(c) /\ pre.atoms[c].chiral = CHI_UNSPECIFIED)
           => mol.atoms[NewIdx(c)].chiral = CHI_UNSPECIFIED
      /\ \A k \in 1..getDegree(pre, c) :
           (OneHOut(c, k) /\ pre.atoms[c].chiral # CHI_UNSPECIFIED) =>
             mol.atoms[NewIdx(c)].chiral =
               IF (getDegree(pre, c) - k) % 2 = 1
               THEN invertChirality(pre.atoms[c].chiral)
               ELSE pre.atoms[c].chiral

\* C22: the hydrogen was the first of four neighbours and the tag has been
\* inverted
C22_Witness ==
  \E c \in 1..NumAtoms(pre) :
    /\ OneHOut(c, 1)
    /\ getDegree(pre, c) = 4
    /\ pre.atoms[c].chiral = CHI_TETRAHEDRAL_CW
    /\ mol.atoms[NewIdx(c)].chiral = CHI_TETRAHEDRAL_CCW

\* ENDUPRIGHT for ENDDOWNRIGHT and back
OppositeDir(d) ==
  IF d = ENDUPRIGHT THEN ENDDOWNRIGHT
  ELSE IF d = ENDDOWNRIGHT THEN ENDUPRIGHT
  ELSE d

\* the side of atom a on which bond bd puts the atom at its other end: the
\* direction of a bond is read from its begin atom to its end atom
SideOf(bd, a) == IF bd.b = a THEN bd.dir ELSE OppositeDir(bd.dir)

\* bond k of pre joins heavy atom a, which removeHs left in, to a hydrogen
\* it took out, the only neighbour of a it took out, and has a direction
DirectedHOut(k, a) ==
  /\ op.name = "removeHs" /\ ~op.threw
  /\ a \in {pre.bonds[k].b, pre.bonds[k].e}
  /\ ~Removed(a) /\ Removed(otherAtomIdx(pre.bonds[k], a))
  /\ pre.atoms[otherAtomIdx(pre.bonds[k], a)].num = 1
  /\ \A n \in 1..getDegree(pre, a) :
       Removed(atomNeighbors(pre, a)[n])
         => atomNeighbors(pre, a)[n] = otherAtomIdx(pre.bonds[k], a)
  /\ pre.bonds[k].dir \in {ENDUPRIGHT, ENDDOWNRIGHT}

\* the single bonds of atom a in pre other than bond k
OtherSingles(k, a) ==
  {j \in 1..NumBonds(pre) :
     /\ j # k /\ a \in {pre.bonds[j].b, pre.bonds[j].e}
     /\ pre.bonds[j].type = SINGLE}

\* bond j of pre as it is in mol
After(j) ==
  mol.bonds[bondBetween(mol, NewIdx(pre.bonds[j].b), NewIdx(pre.bonds[j].e))]

\* C23, all orientations: when removeHs takes out a hydrogen whose bond to
\* atom A has direction ENDUPRIGHT or ENDDOWNRIGHT and the other single
\* bonds of A have no direction, one of them gets a direction that puts its
\* other end on the side of A opposite to the side the hydrogen was on,
\* whichever of the two bonds begin at A; when another single bond of A has
\* such a direction, no bond of A changes its direction.
C23_DirectionHandedOver ==
  \A k \in 1..NumBonds(pre) : \A a \in 1..NumAtoms(pre) :
    DirectedHOut(k, a) =>
      /\ (/\ OtherSingles(k, a) # {}
          /\ \A j \in OtherSingles(k, a) : pre.bonds[j].dir = DIR_NONE)
           => \E j \in OtherSingles(k, a) :
                SideOf(After(j), NewIdx(a))
                  = OppositeDir(SideOf(pre.bonds[k], a))
      /\ (\E j \in OtherSingles(k, a) :
            pre.bonds[j].dir \in {ENDUPRIGHT, ENDDOWNRIGHT})
           => \A j \in OtherSingles(k, a) : After(j).dir = pre.bonds[j].dir

\* the hand-over in every case but that of both bonds ending at A
HandedOverUnlessBothEnd ==
  \A k \in 1..NumBonds(pre) : \A a \in 1..NumAtoms(pre) :
    DirectedHOut(k, a) =>
      /\ (/\ OtherSingles(k, a) # {}
          /\ \A j \in OtherSingles(k, a) : pre.bonds[j].dir = DIR_NONE
          /\ ~(/\ pre.bonds[k].e = a
               /\ \A j \in OtherSingles(k, a) : pre.bonds[j].e = a))
           => \E j \in OtherSingles(k, a) :
                SideOf(After(j), NewIdx(a))
                  = OppositeDir(SideOf(pre.bonds[k], a))
      /\ (\E j \in OtherSingles(k, a) :
            pre.bonds[j].dir \in {ENDUPRIGHT, ENDDOWNRIGHT})
           => \A j \in OtherSingles(k, a) : After(j).dir = pre.bonds[j].dir

\* every position of every conformer of molecule m is a number: no
\* coordinate came out of the normalize of a zero vector
AllNumbers(m) ==
  \A c \in 1..Len(m.confs) : \A i \in 1..NumAtoms(m) : ~m.confs[c][i].p.nan

\* C24: setHydrogenCoords hands no zero vector to normalize, whatever the
\* degree, the hybridization, the dimension and the places of the
\* neighbours: after addHs with addCoords on a molecule whose positions are
\* numbers, every position is a number.
C24_NoZeroNormalized ==
  (op.name = "addHs" /\ op.addCoords /\ AllNumbers(pre)) => AllNumbers(mol)

\* every hydrogen atom of the molecule has been added by addHs: the
\* molecule the behaviour started from had none, and the first call was
\* addHs
HsFromAddHs ==
  /\ Hydrogens(orig) = {}
  /\ Len(ops) >= 2
  /\ ops[1].name = "addHs"

\* C25: removeHs with implicitOnly=true, on a molecule whose hydrogens addHs
\* has added, takes out highest-numbered atoms only: every atom that stays
\* has the index it had before the call.
C25_ImplicitHsAreLast ==
  (HsFromAddHs /\ op.name = "removeHs" /\ op.implicitOnly /\ ~op.threw) =>
    \A i \in 1..NumAtoms(pre) : ~Removed(i) => NewIdx(i) = i

RECURSIVE HLeafIn(_)
\* one of the queries in the sequence kids, or a query below one of them, is
\* a non-negated "atomic number is 1"
HLeafIn(kids) ==
  \E k \in DOMAIN kids :
    \/ (kids[k].desc = "AtomAtomicNum" /\ kids[k].val = 1 /\ ~kids[k].neg)
    \/ HLeafIn(kids[k].kids)

RECURSIVE OrIn(_)
\* query q is an OR, or there is an OR below it
OrIn(q) == q.desc = "AtomOr" \/ \E k \in DOMAIN q.kids : OrIn(q.kids[k])

\* atom i of pre has one neighbour and a query that is not a single
\* non-negated atomic-number query
OtherQuery(i) ==
  /\ getDegree(pre, i) = 1
  /\ hasQuery(pre.atoms[i])
  /\ ~(pre.atoms[i].query.desc = "AtomAtomicNum" /\ ~pre.atoms[i].query.neg)

\* C26: for a degree-1 atom with a query that is not a single non-negated
\* atomic-number query, isQueryH is true only if the query is not negated,
\* has a non-negated "atomic number is 1" below it and has no OR in it; with
\* such a leaf and an OR it is false, and mergeQueryHs leaves the atom in.
C26_QueryHOnlyWithoutOr ==
  op.name = "mergeQueryHs" =>
    \A i \in 1..NumAtoms(pre) :
      OtherQuery(i) =>
        /\ (isQueryH(pre, i) \/ Removed(i))
             => (/\ ~pre.atoms[i].query.neg
                 /\ HLeafIn(pre.atoms[i].query.kids)
                 /\ ~OrIn(pre.atoms[i].query))
        /\ (HLeafIn(pre.atoms[i].query.kids) /\ OrIn(pre.atoms[i].query))
             => (~isQueryH(pre, i) /\ ~Removed(i))

\* C26: an atom whose query has the leaf two levels down and no OR has been
\* merged, and so has not been one with an OR below the top and the leaf
\* beside it
C26_Witness ==
  /\ op.name = "mergeQueryHs"
  /\ \E i \in 1..NumAtoms(pre) :
       /\ OtherQuery(i) /\ Removed(i)
       /\ ~HLeafIn(<<pre.atoms[i].query.kids[1]>>)
       /\ HLeafIn(pre.atoms[i].query.kids)

\* molecule m with its conformer c only
OnlyConf(m, c) == [m EXCEPT !.confs = <<m.confs[c]>>, !.is3D = <<m.is3D[c]>>]

\* C27: the positions addHs with addCoords gives the new hydrogens in one
\* conformer are those it gives them when the molecule has that conformer
\* only; the first hydrogen of an atom without neighbours is at the atom's
\* position plus (0,0,bondLength) in a 3-D conformer and plus (1,0,0) in a
\* 2-D one.
C27_ConformersIndependent ==
  (op.name = "addHs" /\ op.addCoords /\ Len(pre.confs) = 2) =>
    \A c \in 1..2 :
      /\ mol.confs[c]
           = addHs(OnlyConf(pre, c), op.explicitOnly, TRUE, op.only).confs[1]
      /\ (NumAtoms(pre) = 1 /\ NumAtoms(mol) > 1) =>
           mol.confs[c][2].p
             = plus(pre.confs[c][1].p,
                    IF pre.is3D[c] THEN Point3D(0, 0, bondLength(pre, 1))
                    ELSE Point3D(Scale, 0, 0))

\* the calls so far were n calls of addHs and then removeHs once or more
AddsThenRemoves(n) ==
  /\ n >= 1 /\ n < Len(ops)
  /\ \A k \in 1..n : ops[k].name = "addHs"
  /\ \A k \in (n + 1)..Len(ops) : ops[k].name = "removeHs"

\* the atoms of orig that are no hydrogens and have kept their index
HeavyAtoms == {i \in 1..NumAtoms(orig) : orig.atoms[i].num # 1}

\* C28: after n >= 1 calls of addHs(explicitOnly=false) and then one or more
\* calls of removeHs, every heavy atom has the no-implicit flag it had
\* before the first addHs and no origNoImplicit marker.
C28_NoImplicitRestored ==
  \A n \in 1..MaxCalls :
    AddsThenRemoves(n) =>
      \A i \in HeavyAtoms :
        /\ mol.atoms[i].noImplicit = orig.atoms[i].noImplicit
        /\ ~mol.atoms[i].hasOrigNoImplicit

\* the same for one call of addHs
NoImplicitRestoredOnce ==
  AddsThenRemoves(1) =>
    \A i \in HeavyAtoms :
      /\ mol.atoms[i].noImplicit = orig.atoms[i].noImplicit
      /\ ~mol.atoms[i].hasOrigNoImplicit

\* addHs with addCoords has given atom 1, which had two neighbours at some
\* distance from it in the one conformer of pre, a first new hydrogen
ThirdNeighbourAdded ==
  /\ op.name = "addHs" /\ op.addCoords
  /\ Len(pre.confs) = 1 /\ AllNumbers(pre)
  /\ NumAtoms(pre) >= 3 /\ NumAtoms(mol) > NumAtoms(pre)
  /\ getDegree(pre, 1) = 2
  /\ bondBetween(mol, 1, NumAtoms(pre) + 1) # 0
  /\ \A k \in 1..2 :
       ~isDegenerate(minus(pre.confs[1][1].p,
                           pre.confs[1][atomNeighbors(pre, 1)[k]].p))

\* the unit vector that points from the k-th neighbour of atom 1 to atom 1
AwayFrom(k) ==
  normalize(minus(pre.confs[1][1].p, pre.confs[1][atomNeighbors(pre, 1)[k]].p))

C30_CrowdedOnHeavyAtom ==
  (op.name = "addHs" /\ op.addCoords /\ AllNumbers(pre)) =>
    \A h \in (NumAtoms(pre) + 1)..NumAtoms(mol) :
      \A a \in 1..NumAtoms(pre) :
        (bondBetween(mol, a, h) # 0 /\ getDegree(pre, a) >= 4) =>
          \A c \in 1..Len(mol.confs) :
            mol.confs[c][h].p = pre.confs[c][a].p

\* the same for atoms at (0,0,0) only
CrowdedAtOrigin ==
  (op.name = "addHs" /\ op.addCoords /\ AllNumbers(pre)) =>
    \A h \in (NumAtoms(pre) + 1)..NumAtoms(mol) :
      \A a \in 1..NumAtoms(pre) :
        (bondBetween(mol, a, h) # 0 /\ getDegree(pre, a) >= 4) =>
          \A c \in 1..Len(mol.confs) :
            /\ mol.confs[c][h].p = Point3D(0, 0, 0)
            /\ pre.confs[c][a].p = Point3D(0, 0, 0)
                 => mol.confs[c][h].p = pre.confs[c][a].p

====
